---- MODULE Spec2Model ----
(***************************************************************************)
(* A model of the patient question-answering pipeline:                     *)
(*   backend/app/api/chat.py            the chat endpoint                  *)
(*   backend/app/utils/context_manager  the conversation context store     *)
(*   backend/app/utils/reference_resolver, backend/app/rag/retriever       *)
(*                                      patient resolution                 *)
(*   backend/app/rag/query_classifier   the intent rule chain              *)
(*   backend/app/rag/summary_cache      the summary cache                  *)
(*   backend/app/utils/response_builder confidence and evidence            *)
(*                                                                         *)
(* Texts are modelled at word level: a query is a sequence of tokens, a    *)
(* token is a lower-cased word with a capitalisation flag and a            *)
(* possessive ('s) flag.  None is modelled by the sentinels NoId, NoTime   *)
(* and NoneStr.                                                            *)
(***************************************************************************)
EXTENDS Integers, Sequences, FiniteSets, TLC

VARIABLES
    now,      \* the wall clock, in seconds
    ctx,      \* the global ConversationContext record
    cache,    \* the patient_summary table: patient id -> summary text
    last,     \* the request that has just been handled (NoRequest otherwise)
    reads,    \* the results of the last round of context-store reads
    thr,      \* per-thread progress of concurrently handled requests
    br,       \* the last direct call of build_response and its result
    fn        \* the last direct call of a pure function: its input and results

vars == <<now, ctx, cache, last, reads, thr, br, fn>>

----------------------------------------------------------------------------
(* Sentinels for Python's None *)

NoId == 0

NoTime == -1

NoneStr == "None"

NoPatient == [patient_id |-> NoId, name |-> <<>>, age |-> 0, gender |-> NoneStr,
              primary_condition |-> NoneStr, risk_level |-> NoneStr]

\* Python truthiness of an Optional[str]
Truthy(s) == s \notin {NoneStr, ""}

\* the element of a one-element set: The({F(x) : x \in {e}}) is F(e) with e
\* evaluated once
The(S) == CHOOSE x \in S : TRUE

Min(a, b) == IF a <= b THEN a ELSE b

\* the elements of a sequence, as a set
Range(s) == {s[i] : i \in 1..Len(s)}

\* s[1..n] of a sequence (Python s[:n])
Take(s, n) == SubSeq(s, 1, Min(n, Len(s)))

RECURSIVE FilterSeq(_, _)
\* the subsequence of s whose elements are in the set keep
FilterSeq(s, keep) ==
    IF s = <<>> THEN <<>>
    ELSE IF Head(s) \in keep THEN <<Head(s)>> \o FilterSeq(Tail(s), keep)
    ELSE FilterSeq(Tail(s), keep)

----------------------------------------------------------------------------
(* Bounds of the model *)

\* the clock stops advancing here
MaxTime == 1802

\* the clock advances by one of these steps; 900 + 900 is exactly the expiry
\* time and 900 + 901 is one second past it
TickSteps == {900, 901}

\* number of concurrently served requests in the interleaved specification
NumThreads == 2

\* a classifier text is made of at most this many phrases
MaxPhrases == 3

\* a pure function is called at most this many times on the same input
MaxCalls == 2

\* a visit history given to analyze_trend has at most this many records
MaxVisits == 3

\* an ambiguous name matches at most this many patients
MaxMatching == 7

\* get_weighted_history is called with a limit from 0 to this
MaxLimit == 3

\* a patient has at most this many vital readings, and as many lab results
MaxReadings == 2

----------------------------------------------------------------------------
(* The patient store (read-only for the pipeline) *)

Patients == <<
    [patient_id |-> 1, name |-> <<"sarah", "patel">>, age |-> 47, gender |-> "Female",
     primary_condition |-> "Asthma", risk_level |-> "Medium"],
    [patient_id |-> 2, name |-> <<"john", "smith">>, age |-> 60, gender |-> "Male",
     primary_condition |-> "Diabetes", risk_level |-> "High"],
    [patient_id |-> 3, name |-> <<"john", "smith">>, age |-> 35, gender |-> "Male",
     primary_condition |-> "Hypertension", risk_level |-> "Low"],
    [patient_id |-> 4, name |-> <<"mary", "johnson">>, age |-> 52, gender |-> NoneStr,
     primary_condition |-> "Arthritis", risk_level |-> NoneStr] >>

PatientIds == {Patients[i].patient_id : i \in 1..Len(Patients)}

\* number of patient_history rows of each patient
HistoryCount == <<2, 1, 0, 0>>

\* character-level facts about the words of the vocabulary: the pairs <<a, b>>
\* with a a proper substring / suffix / prefix of b
ProperSubstr == {
    <<"age", "manageable">>, <<"change", "changed">>,
    <<"controlled", "well-controlled">>, <<"flare", "flare-up">>, <<"he", "her">>,
    <<"he", "she">>, <<"he", "the">>, <<"he", "together">>, <<"her", "together">>,
    <<"improve", "improved">>, <<"is", "disease">>, <<"is", "history">>,
    <<"is", "risk">>, <<"john", "johnson">>, <<"mary", "summary">>, <<"me", "time">>,
    <<"over", "overall">>, <<"the", "together">>, <<"trend", "trends">>,
    <<"well", "well-controlled">>, <<"worsen", "worsened">>}

ProperSuffix == {
    <<"controlled", "well-controlled">>, <<"he", "she">>, <<"he", "the">>,
    <<"her", "together">>, <<"mary", "summary">>, <<"me", "time">>}

ProperPrefix == {
    <<"change", "changed">>, <<"flare", "flare-up">>, <<"he", "her">>,
    <<"improve", "improved">>, <<"john", "johnson">>, <<"over", "overall">>,
    <<"trend", "trends">>, <<"well", "well-controlled">>, <<"worsen", "worsened">>}

IsSubstr(a, b) == a = b \/ <<a, b>> \in ProperSubstr

----------------------------------------------------------------------------
(* context_manager.py: ConversationContext *)

MEMORY_EXPIRY_SECONDS == 1800

\* ConversationContext.__init__ (also the state clear() leaves)
EmptyContext == [id |-> NoId, name |-> <<>>, gender |-> NoneStr,
                 qtype |-> NoneStr, ts |-> NoTime]

\* a faulty _is_expired that expires the memory at exactly 1800 seconds (>= for >)
_is_expired_inclusive(c, t) ==
    IF c.ts = NoTime THEN TRUE
    ELSE (t - c.ts) >= MEMORY_EXPIRY_SECONDS

\* _is_expired, evaluated at time t
_is_expired(c, t) ==
    IF c.ts = NoTime THEN TRUE
    ELSE (t - c.ts) > MEMORY_EXPIRY_SECONDS

\* set_active_patient, called at time t
set_active_patient(patient_id, patient_name, patient_gender, query_type, t) ==
    [id |-> patient_id, name |-> patient_name, gender |-> patient_gender,
     qtype |-> query_type, ts |-> t]

get_active_patient_id(c, t) == IF _is_expired(c, t) THEN NoId ELSE c.id

get_active_patient_name(c, t) == IF _is_expired(c, t) THEN <<>> ELSE c.name

get_active_patient_gender(c, t) == IF _is_expired(c, t) THEN NoneStr ELSE c.gender

get_last_query_type(c, t) == IF _is_expired(c, t) THEN NoneStr ELSE c.qtype

get_timestamp(c) == c.ts

has_active_patient(c, t) == IF _is_expired(c, t) THEN FALSE ELSE c.id # NoId

get_memory_summary(c, t) ==
    [patient_id |-> c.id, patient_name |-> c.name, patient_gender |-> c.gender,
     query_type |-> c.qtype, timestamp |-> c.ts, expired |-> _is_expired(c, t)]

----------------------------------------------------------------------------
(* response_builder.py *)

ResponseTypes == {"FACTUAL", "SUMMARY_HIT", "SUMMARY_MISS", "COMPLEX",
                  "SEVERITY_ASSESSMENT", "REFUSAL"}

\* a faulty CONFIDENCE_MAP whose COMPLEX entry is High
CONFIDENCE_MAP_complexHigh(response_type) ==
    CASE response_type = "FACTUAL" -> "High"
      [] response_type = "SUMMARY_HIT" -> "High"
      [] response_type = "SUMMARY_MISS" -> "Medium"
      [] response_type = "COMPLEX" -> "High"
      [] response_type = "SEVERITY_ASSESSMENT" -> "Medium"
      [] response_type = "REFUSAL" -> "Low"
      [] OTHER -> "Low"

\* CONFIDENCE_MAP.get(response_type, ConfidenceLevel.LOW)
CONFIDENCE_MAP(response_type) ==
    CASE response_type = "FACTUAL" -> "High"
      [] response_type = "SUMMARY_HIT" -> "High"
      [] response_type = "SUMMARY_MISS" -> "Medium"
      [] response_type = "COMPLEX" -> "Medium"
      [] response_type = "SEVERITY_ASSESSMENT" -> "Medium"
      [] response_type = "REFUSAL" -> "Low"
      [] OTHER -> "Low"

\* timing_ms = NoTime stands for timing_ms=None: the key is then left out
build_response(answer, response_type, evidence, timing_ms) ==
    IF timing_ms # NoTime
    THEN [answer |-> answer, confidence |-> CONFIDENCE_MAP(response_type),
          evidence |-> evidence, timing_ms |-> timing_ms]
    ELSE [answer |-> answer, confidence |-> CONFIDENCE_MAP(response_type),
          evidence |-> evidence]

get_factual_evidence(field) ==
    CASE field = "primary_condition" -> <<"patients.primary_condition">>
      [] field = "age" -> <<"patients.age">>
      [] field = "gender" -> <<"patients.gender">>
      [] field = "risk_level" -> <<"patients.risk_level">>
      [] OTHER -> <<"patients.", field>>

get_summary_evidence(cache_hit) ==
    IF cache_hit THEN <<"cached_patient_summary">>
    ELSE <<"patient_history (weighted: recency + clinical signals)", "generated_summary">>

get_complex_evidence ==
    <<"patient_history (weighted: recency + clinical signals)", "trend_analysis">>

get_refusal_evidence(reason) ==
    CASE reason = "GENDER_MISMATCH" -> <<"pronoun gender mismatch">>
      [] reason = "NO_CONTEXT" -> <<"no prior patient context">>
      [] reason = "PATIENT_NOT_FOUND" -> <<"patient not found in database">>
      [] reason = "INSUFFICIENT_DATA" -> <<"insufficient data for analysis">>
      [] reason = "AMBIGUOUS" -> <<"ambiguous patient reference">>
      [] OTHER -> <<"insufficient data for analysis">>

----------------------------------------------------------------------------
(* Query texts *)

Tok(w, cap, poss) == [w |-> w, cap |-> cap, poss |-> poss]

\* a lower-case word, a Capitalised word, a Capitalised possessive (Word's)
lw(w) == Tok(w, FALSE, FALSE)

Cw(w) == Tok(w, TRUE, FALSE)

Ps(w) == Tok(w, TRUE, TRUE)

\* sp counts whitespace characters around the tokens ("" has sp = 0, "  " has sp = 2)
Qy(toks) == [sp |-> 0, toks |-> toks]

\* digit strings of the vocabulary and their int() values; "#n" tokens
NumWords == {"2", "4", "9"}

HashWords == {"#2", "#4", "#9"}

IntOf(w) ==
    CASE w \in {"2", "#2"} -> 2
      [] w \in {"4", "#4"} -> 4
      [] w \in {"9", "#9"} -> 9
      [] OTHER -> NoId

\* str.isalpha() of a whitespace-separated token
IsAlpha(t) == ~t.poss /\ t.w \notin NumWords /\ t.w \notin HashWords

\* `not query or not query.strip()`
IsBlank(q) == q.toks = <<>>

----------------------------------------------------------------------------
(* utils/text.py *)

PRONOUNS_MALE == {"he", "him", "his"}

PRONOUNS_FEMALE == {"she", "her", "hers"}

\* the digits of a "#n" token
StripHash(w) ==
    CASE w = "#2" -> "2"
      [] w = "#4" -> "4"
      [] w = "#9" -> "9"
      [] OTHER -> w

\* set(re.findall(r'\b\w+\b', query.lower())): Word's gives the words word and s
WordSet(q) ==
    {StripHash(q.toks[i].w) : i \in 1..Len(q.toks)}
    \cup {"s" : i \in {j \in 1..Len(q.toks) : q.toks[j].poss}}

contains_pronoun(q) ==
    IF WordSet(q) \cap PRONOUNS_MALE # {} THEN "male"
    ELSE IF WordSet(q) \cap PRONOUNS_FEMALE # {} THEN "female"
    ELSE NoneStr

\* re.search(r"(\w+)'s\b", query.lower()): the leftmost possessive
extract_possessive_name(q) ==
    LET idx == {i \in 1..Len(q.toks) : q.toks[i].poss}
    IN IF idx = {} THEN NoneStr
       ELSE q.toks[CHOOSE i \in idx : \A j \in idx : i <= j].w

----------------------------------------------------------------------------
(* rag/retriever.py: id and name extraction *)

COMMON_FIRST_NAMES == {
    "james", "mary", "robert", "patricia", "john", "jennifer", "michael", "linda",
    "david", "elizabeth", "william", "barbara", "richard", "susan", "joseph", "jessica",
    "thomas", "sarah", "christopher", "karen"}

COMMON_LAST_NAMES == {
    "smith", "johnson", "williams", "brown", "jones", "garcia", "miller", "davis",
    "rodriguez", "martinez", "hernandez", "lopez", "gonzalez", "wilson", "anderson",
    "thomas", "taylor", "moore", "jackson", "martin"}

\* the least element of a non-empty set of positions
Least(S) == CHOOSE i \in S : \A j \in S : i <= j

\* _extract_patient_id: the four patterns in order, each at its leftmost match
_extract_patient_id(q) ==
    LET t == q.toks
        n == Len(t)
        plain(i) == ~t[i].poss
        p1 == {i \in 1..n : i + 2 <= n /\ t[i].w = "patient" /\ plain(i)
                            /\ t[i+1].w = "id" /\ plain(i+1) /\ t[i+2].w \in NumWords}
        p2 == {i \in 1..n : i + 1 <= n /\ t[i].w = "patient" /\ plain(i)
                            /\ t[i+1].w \in NumWords}
        p3 == {i \in 1..n : i + 1 <= n /\ t[i].w = "id" /\ plain(i)
                            /\ t[i+1].w \in NumWords}
        p4 == {i \in 1..n : t[i].w \in HashWords}
    IN IF p1 # {} THEN IntOf(t[Least(p1) + 2].w)
       ELSE IF p2 # {} THEN IntOf(t[Least(p2) + 1].w)
       ELSE IF p3 # {} THEN IntOf(t[Least(p3) + 1].w)
       ELSE IF p4 # {} THEN IntOf(t[Least(p4)].w)
       ELSE NoId

RECURSIVE AddKnownNames(_, _, _)
\* the loop over words_lower: a word of the known-name lists adds its first
\* original spelling unless that string is a candidate already
AddKnownNames(words, toks, candidates) ==
    IF words = <<>> THEN candidates
    ELSE LET word == Head(words)
             idx == {i \in 1..Len(toks) : toks[i].w = word /\ ~toks[i].poss}
             orig == toks[Least(idx)]
         IN IF (word \in COMMON_FIRST_NAMES \/ word \in COMMON_LAST_NAMES)
               /\ <<orig>> \notin Range(candidates)
            THEN AddKnownNames(Tail(words), toks, Append(candidates, <<orig>>))
            ELSE AddKnownNames(Tail(words), toks, candidates)

\* _extract_name_candidates: a candidate is a sequence of one or two tokens
_extract_name_candidates(q) ==
    LET alpha == {q.toks[i] : i \in {j \in 1..Len(q.toks) : IsAlpha(q.toks[j])}}
        capitalized == FilterSeq(q.toks, {t \in alpha : t.cap})
        pairs == [i \in 1..(Len(capitalized) - 1) |->
                     <<capitalized[i], capitalized[i + 1]>>]
        singles == [i \in 1..Len(capitalized) |-> <<capitalized[i]>>]
        alphaToks == FilterSeq(q.toks, alpha)
        words_lower == [i \in 1..Len(alphaToks) |-> alphaToks[i].w]
    IN AddKnownNames(words_lower, q.toks, pairs \o singles)

\* the lower-cased words of a candidate
CandWords(c) == [i \in 1..Len(c) |-> c[i].w]

\* Patient.name.ilike(candidate)
NameIs(p, c) == p.name = c

\* Patient.name.ilike(f"{candidate} %")
NameStartsWith(p, c) ==
    Len(p.name) > Len(c) /\ SubSeq(p.name, 1, Len(c)) = c

\* Patient.name.ilike(f"% {candidate}")
NameEndsWith(p, c) ==
    Len(p.name) > Len(c) /\ SubSeq(p.name, Len(p.name) - Len(c) + 1, Len(p.name)) = c

\* the rows of the patient table that satisfy cond, in table order
Select(cond(_)) == FilterSeq(Patients, {p \in Range(Patients) : cond(p)})

\* all_matches extended by the rows of found whose id was not seen
AddUnseen(all_matches, found) ==
    all_matches \o
    FilterSeq(found, {p \in Range(found) :
                        \A i \in 1..Len(all_matches) :
                            all_matches[i].patient_id # p.patient_id})

RECURSIVE MatchCandidates(_, _)
\* the loop over the candidates of retriever._find_patients_by_name
MatchCandidates(candidates, all_matches) ==
    IF candidates = <<>> THEN all_matches
    ELSE LET c == CandWords(Head(candidates))
             exactCond(p) == NameIs(p, c)
             preCond(p) == NameStartsWith(p, c)
             sufCond(p) == NameEndsWith(p, c)
             m1 == AddUnseen(all_matches, Select(exactCond))
             m2 == AddUnseen(m1, Select(preCond))
             m3 == AddUnseen(m2, Select(sufCond))
         IN IF m1 # <<>> THEN MatchCandidates(Tail(candidates), m1)
            ELSE MatchCandidates(Tail(candidates), m3)

\* retriever._find_patients_by_name(query, db)
retriever_find_patients_by_name(q) ==
    LET candidates == _extract_name_candidates(q)
    IN IF candidates = <<>> THEN <<>> ELSE MatchCandidates(candidates, <<>>)

\* db.query(Patient).filter(Patient.patient_id == patient_id).first()
_find_patient_by_id(patient_id) ==
    LET idx == {i \in 1..Len(Patients) : Patients[i].patient_id = patient_id}
    IN IF idx = {} THEN NoPatient ELSE Patients[Least(idx)]

\* reference_resolver._find_patients_by_name(name, db): exact, else contains
resolver_find_patients_by_name(name) ==
    LET exactCond(p) == p.name = <<name>>
        partCond(p) == \E i \in 1..Len(p.name) : IsSubstr(name, p.name[i])
    IN IF ~Truthy(name) THEN <<>>
       ELSE IF Select(exactCond) # <<>> THEN Select(exactCond)
       ELSE Select(partCond)

----------------------------------------------------------------------------
(* rag/query_classifier.py, on the lower-cased query *)

\* character lengths of the vocabulary's words
CharLen(w) ==
    CASE w \in {"2", "4", "9"} -> 1
      [] w \in {"he", "is", "me", "#2", "#4", "#9"} -> 2
      [] w \in {"and", "bad", "for", "her", "how", "old", "she", "the", "zed"} -> 3
      [] w \in {"give", "john", "mary", "over", "risk", "tell", "time", "what"} -> 4
      [] w \in {"about", "doing", "level", "patel", "sarah", "trend"} -> 5
      [] w \in {"gender", "trends"} -> 6
      [] w \in {"changed", "disease", "history", "johnson", "overall", "patient",
                "serious", "summary"} -> 7
      [] w \in {"together"} -> 8
      [] w \in {"condition"} -> 9
      [] w \in {"manageable"} -> 10
      [] OTHER -> 0

Inside(k, w) == IsSubstr(k, w)

EndsWith(w, k) == k = w \/ <<k, w>> \in ProperSuffix

StartsWith(w, k) == k = w \/ <<k, w>> \in ProperPrefix

\* `keyword in query_lower` for a keyword given as its sequence of words: a
\* character-substring test, so the first word may end a token and the last
\* word may begin one
KwIn(q, kw) ==
    LET t == q.toks
        n == Len(t)
        k == Len(kw)
    IN IF k = 1 THEN \E i \in 1..n : Inside(kw[1], t[i].w)
       ELSE \E i \in 1..n :
               /\ i + k - 1 <= n
               /\ EndsWith(t[i].w, kw[1]) /\ ~t[i].poss
               /\ \A j \in 2..(k - 1) : t[i + j - 1].w = kw[j] /\ ~t[i + j - 1].poss
               /\ StartsWith(t[i + k - 1].w, kw[k])

\* re.search of a pattern \bW1\s+W2\s+...\bWn\b, each Wi a set of alternatives
Rx(q, pat) ==
    LET t == q.toks
        n == Len(t)
        k == Len(pat)
    IN \E i \in 1..n :
          /\ i + k - 1 <= n
          /\ \A j \in 1..k : t[i + j - 1].w \in pat[j]
          /\ \A j \in 1..(k - 1) : ~t[i + j - 1].poss

\* re.search of \bA B .* C\b and of \bA B .* C\s*D\b (head and tail are
\* sequences of alternative sets, at least one space on each side of .*)
RxGap(q, head, tail) ==
    LET t == q.toks
        n == Len(t)
        h == Len(head)
        k == Len(tail)
    IN \E i \in 1..n : \E m \in 1..n :
          /\ i + h - 1 <= n /\ m + k - 1 <= n /\ m >= i + h + 1
          /\ \A j \in 1..h : t[i + j - 1].w \in head[j] /\ ~t[i + j - 1].poss
          /\ \A j \in 1..k : t[m + j - 1].w \in tail[j]
          /\ \A j \in 1..(k - 1) : ~t[m + j - 1].poss

QUALITATIVE_KEYWORDS == {
    "bad", "serious", "severe", "critical", "dangerous",
    "mild", "moderate", "manageable", "stable",
    "worried", "concern", "concerning", "worrying", "alarmed",
    "worry", "alarming", "urgent",
    "seriousness", "prognosis"}

TEMPORAL_CHANGE_KEYWORDS == {
    <<"changed">>, <<"changes">>, <<"changing">>,
    <<"worsened">>, <<"worsen">>, <<"worsening">>,
    <<"progressed">>, <<"progress">>, <<"progression">>,
    <<"improved">>, <<"improve">>, <<"improving">>,
    <<"deteriorated">>, <<"deteriorating">>,
    <<"over", "time">>, <<"over", "the", "years">>, <<"over", "the", "months">>,
    <<"throughout">>, <<"since", "then">>, <<"before", "and", "after">>,
    <<"trend">>, <<"trends">>, <<"pattern">>, <<"patterns">>,
    <<"compare">>, <<"comparison">>, <<"difference">>}

SUMMARY_KEYWORDS == {
    <<"summary">>, <<"summarize">>, <<"summarise">>,
    <<"overview">>, <<"tell", "me", "about">>,
    <<"who", "is">>, <<"describe">>, <<"background">>,
    <<"treatment", "history">>, <<"visit", "history">>, <<"visits">>,
    <<"history">>}

\* FACTUAL_MAPPINGS as keyword/field pairs
FACTUAL_MAPPINGS == {
    <<"diagnosed", "primary_condition">>, <<"diagnosis", "primary_condition">>,
    <<"disease", "primary_condition">>, <<"illness", "primary_condition">>,
    <<"age", "age">>, <<"old", "age">>,
    <<"gender", "gender">>, <<"sex", "gender">>}

SeverityAdj == {"serious", "severe", "bad", "dangerous", "critical", "concerning",
                "worrying"}

\* any EXPLICIT_FACTUAL_PATTERNS entry matches
ExplicitFactual(q) ==
    \/ Rx(q, <<{"what"}, {"is", "are"}, {"his", "her", "the"},
               {"diagnosis", "condition", "disease", "illness"}>>)
    \/ Rx(q, <<{"what"}, {"condition"}, {"does", "do"}>>)
    \/ \E i \in 1..Len(q.toks) :
          /\ i + 3 <= Len(q.toks)
          /\ q.toks[i].w = "what" /\ q.toks[i + 1].w = "is"
          /\ q.toks[i + 3].w \in {"diagnosed", "suffering"}
          /\ \A j \in 0..2 : ~q.toks[i + j].poss
          /\ q.toks[i + 2].w \notin HashWords
    \/ Rx(q, <<{"how"}, {"old"}>>)
    \/ Rx(q, <<{"what"}, {"is"}, {"his", "her", "the"}, {"age"}>>)
    \/ Rx(q, <<{"risk"}, {"level"}>>)

\* \bis\s+(his|her|the|this)\s+\w*\s*(serious|...)\b
RxIsDetAdj(q) ==
    LET t == q.toks
        n == Len(t)
    IN \E i \in 1..n :
          /\ i + 2 <= n
          /\ t[i].w = "is" /\ ~t[i].poss
          /\ t[i + 1].w \in {"his", "her", "the", "this"} /\ ~t[i + 1].poss
          /\ \/ \E a \in SeverityAdj : EndsWith(t[i + 2].w, a)
             \/ /\ i + 3 <= n
                /\ ~t[i + 2].poss /\ t[i + 2].w \notin HashWords
                /\ t[i + 3].w \in SeverityAdj

\* any SEVERITY_ASSESSMENT_PATTERNS entry matches
SeverityPattern(q) ==
    \/ Rx(q, <<{"how"}, {"bad", "serious", "severe", "critical", "dangerous",
                         "concerning", "worrying", "urgent"}>>)
    \/ Rx(q, <<{"how"}, {"good", "stable", "mild", "manageable"}>>)
    \/ RxIsDetAdj(q)
    \/ Rx(q, <<{"is"}, {"it", "this"}, {"serious", "severe", "bad", "dangerous",
                                        "critical", "concerning"}>>)
    \/ Rx(q, <<{"should"}, {"i", "we"}, {"worried", "concerned", "alarmed"}>>)
    \/ Rx(q, <<{"should"}, {"i", "we"}, {"be"}, {"worried", "concerned", "alarmed"}>>)
    \/ Rx(q, <<{"should"}, {"i", "we"}, {"worry"}>>)
    \/ Rx(q, <<{"is"}, {"this", "it"}, {"worry", "concern"}>>)
    \/ Rx(q, <<{"is"}, {"this", "it"}, {"something"}, {"to"}, {"worry", "concern"}>>)
    \/ Rx(q, <<{"does", "do"}, {"he", "she", "they"}, {"have"}, {"a"},
               {"severe", "bad", "serious", "mild", "moderate"}, {"case", "condition"}>>)
    \/ Rx(q, <<{"what"}, {"is"}, {"severity", "seriousness", "prognosis"}>>)
    \/ Rx(q, <<{"what"}, {"is"}, {"the"}, {"severity", "seriousness", "prognosis"}>>)
    \/ Rx(q, <<{"how"}, {"concerning", "worrying"}, {"is"}>>)
    \/ Rx(q, <<{"is"}, {"this", "it"}, {"a"},
               {"severe", "mild", "serious", "bad", "moderate"}, {"case", "condition"}>>)

\* the number of characters before token i (tokens separated by one space)
RECURSIVE CharOffset(_, _)
CharOffset(t, i) ==
    IF i <= 1 THEN 0
    ELSE CharOffset(t, i - 1) + CharLen(t[i - 1].w)
         + (IF t[i - 1].poss THEN 2 ELSE 0) + 1

\* "what is" in query_lower[:20]
WhatIsInFirst20(q) ==
    LET t == q.toks
    IN \E i \in 1..Len(t) :
          /\ i + 1 <= Len(t)
          /\ EndsWith(t[i].w, "what") /\ ~t[i].poss
          /\ StartsWith(t[i + 1].w, "is")
          /\ CharOffset(t, i) + CharLen(t[i].w) + 3 <= 20

\* a faulty _is_severity_assessment without the explicit-factual exclusion
_is_severity_assessment_noNegation(q) ==
    IF SeverityPattern(q) THEN TRUE
    ELSE /\ q.toks # <<>>
         /\ ~q.toks[1].poss
         /\ q.toks[1].w \in {"how", "is", "are", "should", "does", "do", "what"}
         /\ \E k \in QUALITATIVE_KEYWORDS : KwIn(q, <<k>>)
         /\ ~KwIn(q, <<"what", "condition">>)
         /\ ~WhatIsInFirst20(q)

_is_severity_assessment(q) ==
    IF ExplicitFactual(q) THEN FALSE
    ELSE IF SeverityPattern(q) THEN TRUE
    ELSE /\ q.toks # <<>>
         /\ ~q.toks[1].poss
         /\ q.toks[1].w \in {"how", "is", "are", "should", "does", "do", "what"}
         /\ \E k \in QUALITATIVE_KEYWORDS : KwIn(q, <<k>>)
         /\ ~KwIn(q, <<"what", "condition">>)
         /\ ~WhatIsInFirst20(q)

HasTemporal(q) == \E kw \in TEMPORAL_CHANGE_KEYWORDS : KwIn(q, kw)

\* STATIC_ATTRIBUTE_PATTERNS in order: the first matching pattern gives the field
StaticPatternField(q) ==
    IF Rx(q, <<{"how"}, {"old"}>>) THEN "age"
    ELSE IF Rx(q, <<{"age"}>>) THEN "age"
    ELSE IF Rx(q, <<{"years"}, {"old"}>>) THEN "age"
    ELSE IF Rx(q, <<{"diagnosed"}, {"with"}>>) THEN "primary_condition"
    ELSE IF Rx(q, <<{"diagnosis"}>>) THEN "primary_condition"
    ELSE IF Rx(q, <<{"what"}, {"condition"}>>) THEN "primary_condition"
    ELSE IF RxGap(q, <<{"what"}, {"is"}>>, <<{"condition"}>>) THEN "primary_condition"
    ELSE IF RxGap(q, <<{"what"}, {"does", "do"}>>, <<{"have"}>>) THEN "primary_condition"
    ELSE IF Rx(q, <<{"risk"}, {"level"}>>) THEN "risk_level"
    ELSE IF RxGap(q, <<{"what"}, {"is"}>>, <<{"risk"}, {"level"}>>)
            \/ RxGap(q, <<{"what"}, {"is"}>>, <<{"risklevel"}>>) THEN "risk_level"
    ELSE IF Rx(q, <<{"gender"}>>) THEN "gender"
    ELSE IF Rx(q, <<{"what"}, {"sex"}>>) THEN "gender"
    ELSE NoneStr

\* a faulty _check_static_attribute that ignores the temporal keywords
_check_static_attribute_ignoresTemporal(q) == StaticPatternField(q)

_check_static_attribute(q) ==
    IF HasTemporal(q) THEN NoneStr ELSE StaticPatternField(q)

_is_temporal_complex_query(q) == HasTemporal(q)

_is_summary_query(q) == \E kw \in SUMMARY_KEYWORDS : KwIn(q, kw)

\* a faulty _check_factual_field that answers with a field whenever some
\* keyword matched
_check_factual_field_anyField(q) ==
    LET matched_fields == {m[2] : m \in {x \in FACTUAL_MAPPINGS : KwIn(q, <<x[1]>>)}}
    IN IF matched_fields # {}
       THEN CHOOSE f \in matched_fields : TRUE
       ELSE NoneStr

_check_factual_field(q) ==
    LET matched_fields == {m[2] : m \in {x \in FACTUAL_MAPPINGS : KwIn(q, <<x[1]>>)}}
    IN IF Cardinality(matched_fields) = 1
       THEN CHOOSE f \in matched_fields : TRUE
       ELSE NoneStr

\* a faulty classify_query that tries the severity rule before the static one
classify_query_severityFirst(q) ==
    IF IsBlank(q) THEN [type |-> "COMPLEX", field |-> NoneStr]
    ELSE IF _is_severity_assessment(q)
         THEN [type |-> "SEVERITY_ASSESSMENT", field |-> NoneStr]
    ELSE IF Truthy(_check_static_attribute(q))
         THEN [type |-> "FACTUAL", field |-> _check_static_attribute(q)]
    ELSE IF _is_temporal_complex_query(q) THEN [type |-> "COMPLEX", field |-> NoneStr]
    ELSE IF _is_summary_query(q) THEN [type |-> "SUMMARY", field |-> NoneStr]
    ELSE IF Truthy(_check_factual_field(q))
         THEN [type |-> "FACTUAL", field |-> _check_factual_field(q)]
    ELSE [type |-> "COMPLEX", field |-> NoneStr]

classify_query(q) ==
    IF IsBlank(q) THEN [type |-> "COMPLEX", field |-> NoneStr]
    ELSE IF Truthy(_check_static_attribute(q))
         THEN [type |-> "FACTUAL", field |-> _check_static_attribute(q)]
    ELSE IF _is_severity_assessment(q)
         THEN [type |-> "SEVERITY_ASSESSMENT", field |-> NoneStr]
    ELSE IF _is_temporal_complex_query(q) THEN [type |-> "COMPLEX", field |-> NoneStr]
    ELSE IF _is_summary_query(q) THEN [type |-> "SUMMARY", field |-> NoneStr]
    ELSE IF Truthy(_check_factual_field(q))
         THEN [type |-> "FACTUAL", field |-> _check_factual_field(q)]
    ELSE [type |-> "COMPLEX", field |-> NoneStr]

\* retriever._detect_intent
HISTORY_KEYWORDS == {"history", "summary", "visits", "treatment", "treatments"}

CONDITIONS_KEYWORDS == {"condition", "conditions", "diagnosis", "disease", "diseases"}

_detect_intent(q) ==
    IF WordSet(q) \cap HISTORY_KEYWORDS # {} THEN "HISTORY_SUMMARY"
    ELSE IF WordSet(q) \cap CONDITIONS_KEYWORDS # {} THEN "CONDITIONS"
    ELSE "BASIC_INFO"

----------------------------------------------------------------------------
(* The query texts of the model, and what the pipeline derives from the text
   alone (computed once per text) *)

Queries == {
    [sp |-> 2, toks |-> <<>>],                                      \* "  "
    Qy(<<lw("how"), lw("old"), lw("is"), Cw("sarah"), Cw("patel")>>),
    Qy(<<lw("how"), lw("is"), lw("he"), lw("doing")>>),
    Qy(<<lw("how"), lw("is"), lw("she"), lw("doing")>>),
    Qy(<<Cw("tell"), lw("me"), lw("about"), Cw("sarah"), Cw("patel")>>),
    Qy(<<Cw("tell"), lw("me"), lw("about"), Cw("john")>>),
    Qy(<<lw("how"), lw("bad"), lw("is"), Ps("sarah"), lw("condition")>>),
    Qy(<<lw("tell"), lw("me"), lw("about"), lw("her"), lw("and"), Cw("mary"),
         Cw("johnson")>>),
    Qy(<<lw("summary"), lw("for"), lw("patient"), lw("2")>>),
    Qy(<<Ps("john"), lw("history")>>),
    Qy(<<lw("how"), lw("old"), lw("is"), Cw("zed")>>),
    Qy(<<lw("how"), lw("serious"), lw("is"), Ps("mary"), lw("condition")>>),
    Qy(<<lw("what"), lw("changed"), lw("for"), Cw("sarah"), Cw("patel")>>),
    Qy(<<lw("how"), lw("old"), lw("is"), lw("he")>>),
    Qy(<<lw("give"), lw("me"), lw("her"), lw("history")>>),
    Qy(<<lw("overall"), lw("trends"), lw("for"), Cw("sarah"), Cw("patel")>>),
    Qy(<<Ps("zed"), lw("history")>>) }

OfQuery == [q \in Queries |->
    [contains_pronoun |-> contains_pronoun(q),
     extract_possessive_name |-> extract_possessive_name(q),
     possessive_patients |-> resolver_find_patients_by_name(extract_possessive_name(q)),
     extract_patient_id |-> _extract_patient_id(q),
     find_patients_by_name |-> retriever_find_patients_by_name(q),
     detect_intent |-> _detect_intent(q),
     classify_query |-> classify_query(q)]]

----------------------------------------------------------------------------
(* utils/reference_resolver.py *)

\* str.lower() on the gender strings of the store
Lower(g) ==
    CASE g = "Female" -> "female"
      [] g = "Male" -> "male"
      [] OTHER -> g

\* a faulty _check_gender_match that tests the male class by substring
\* ("male" in gender.lower()), which "female" satisfies
_check_gender_match_substring(pronoun_gender, patient_gender) ==
    IF ~Truthy(patient_gender) THEN TRUE
    ELSE IF pronoun_gender = "male"
         THEN Lower(patient_gender) \in {"male", "female", "m", "man"}
    ELSE IF pronoun_gender = "female"
         THEN Lower(patient_gender) \in {"female", "f", "woman"}
    ELSE FALSE

_check_gender_match(pronoun_gender, patient_gender) ==
    IF ~Truthy(patient_gender) THEN TRUE
    ELSE IF pronoun_gender = "male" THEN Lower(patient_gender) \in {"male", "m", "man"}
    ELSE IF pronoun_gender = "female"
         THEN Lower(patient_gender) \in {"female", "f", "woman"}
    ELSE FALSE

Resolved(patient, method, c) == [patient |-> patient, method |-> method, ctx |-> c]

\* a faulty possessive strategy that takes the first match of several
ResolvePossessive_firstMatch(q, c, t) ==
    LET possessive_name == OfQuery[q].extract_possessive_name
        patients == OfQuery[q].possessive_patients
    IN IF Truthy(possessive_name) /\ Len(patients) >= 1
       THEN Resolved(patients[1], "POSSESSIVE",
                     set_active_patient(patients[1].patient_id, patients[1].name,
                                        patients[1].gender, NoneStr, t))
       ELSE Resolved(NoPatient, "NONE", c)

\* Strategy 2 of resolve_patient_reference: the possessive name
ResolvePossessive(q, c, t) ==
    LET possessive_name == OfQuery[q].extract_possessive_name
        patients == OfQuery[q].possessive_patients
    IN IF Truthy(possessive_name)
       THEN IF Len(patients) = 1
            THEN Resolved(patients[1], "POSSESSIVE",
                          set_active_patient(patients[1].patient_id, patients[1].name,
                                             patients[1].gender, NoneStr, t))
            ELSE IF Len(patients) > 1 THEN Resolved(NoPatient, "AMBIGUOUS", c)
            ELSE Resolved(NoPatient, "NONE", c)
       ELSE Resolved(NoPatient, "NONE", c)

\* a faulty resolve_patient_reference that, for a pronoun without an active
\* patient, goes on to the possessive strategy instead of returning NO_CONTEXT
ResolveWith_fallthrough(q, active, patient_id, c, t) ==
    LET pronoun_gender == OfQuery[q].contains_pronoun
        patient == _find_patient_by_id(patient_id)
    IN IF Truthy(pronoun_gender) /\ active /\ patient # NoPatient
       THEN IF _check_gender_match(pronoun_gender, patient.gender)
            THEN Resolved(patient, "PRONOUN", c)
            ELSE Resolved(NoPatient, "GENDER_MISMATCH", c)
       ELSE ResolvePossessive(q, c, t)

\* resolve_patient_reference, given what has_active_patient() returned (active)
\* and what get_active_patient_id() returned afterwards (patient_id)
ResolveWith(q, active, patient_id, c, t) ==
    LET pronoun_gender == OfQuery[q].contains_pronoun
        patient == _find_patient_by_id(patient_id)
    IN IF Truthy(pronoun_gender)
       THEN IF active
            THEN IF patient # NoPatient
                 THEN IF _check_gender_match(pronoun_gender, patient.gender)
                      THEN Resolved(patient, "PRONOUN", c)
                      ELSE Resolved(NoPatient, "GENDER_MISMATCH", c)
                 ELSE ResolvePossessive(q, c, t)
            ELSE Resolved(NoPatient, "NO_CONTEXT", c)
       ELSE ResolvePossessive(q, c, t)

\* resolve_patient_reference run without interruption at time t
resolve_patient_reference(q, c, t) ==
    ResolveWith(q, has_active_patient(c, t), get_active_patient_id(c, t), c, t)

\* update_context_from_patient
update_context_from_patient(patient, c, t) ==
    IF patient # NoPatient
    THEN set_active_patient(patient.patient_id, patient.name, patient.gender, NoneStr, t)
    ELSE c

----------------------------------------------------------------------------
(* rag/retriever.py: identification and retrieval *)

\* a faulty _identify_patient that stores the first of several matching
\* patients in the context store
_identify_patient_remembersFirst(q, c, t) ==
    LET patient_id == OfQuery[q].extract_patient_id
        byId == _find_patient_by_id(patient_id)
        patients == OfQuery[q].find_patients_by_name
    IN The({
       IF r.patient # NoPatient
       THEN IF r.method \in {"PRONOUN", "CONTEXT_FALLBACK", "POSSESSIVE"}
            THEN [patient |-> r.patient, status |-> r.method, ctx |-> r.ctx]
            ELSE [patient |-> r.patient, status |-> "FOUND", ctx |-> r.ctx]
       ELSE IF r.method = "AMBIGUOUS"
            THEN [patient |-> NoPatient, status |-> "AMBIGUOUS", ctx |-> r.ctx]
       ELSE IF patient_id # NoId /\ byId # NoPatient
            THEN [patient |-> byId, status |-> "FOUND",
                  ctx |-> set_active_patient(byId.patient_id, byId.name, byId.gender,
                                             NoneStr, t)]
       ELSE IF Len(patients) = 1
            THEN [patient |-> patients[1], status |-> "FOUND",
                  ctx |-> set_active_patient(patients[1].patient_id, patients[1].name,
                                             patients[1].gender, NoneStr, t)]
       ELSE IF Len(patients) > 1
            THEN [patient |-> NoPatient, status |-> "AMBIGUOUS",
                  ctx |-> set_active_patient(patients[1].patient_id, patients[1].name,
                                             patients[1].gender, NoneStr, t)]
       ELSE [patient |-> NoPatient, status |-> "NOT_FOUND", ctx |-> r.ctx]
       : r \in {resolve_patient_reference(q, c, t)} })

_identify_patient(q, c, t) ==
    LET patient_id == OfQuery[q].extract_patient_id
        byId == _find_patient_by_id(patient_id)
        patients == OfQuery[q].find_patients_by_name
    IN The({
       IF r.patient # NoPatient
       THEN IF r.method \in {"PRONOUN", "CONTEXT_FALLBACK", "POSSESSIVE"}
            THEN [patient |-> r.patient, status |-> r.method, ctx |-> r.ctx]
            ELSE [patient |-> r.patient, status |-> "FOUND", ctx |-> r.ctx]
       ELSE IF r.method = "AMBIGUOUS"
            THEN [patient |-> NoPatient, status |-> "AMBIGUOUS", ctx |-> r.ctx]
       ELSE IF patient_id # NoId /\ byId # NoPatient
            THEN [patient |-> byId, status |-> "FOUND",
                  ctx |-> set_active_patient(byId.patient_id, byId.name, byId.gender,
                                             NoneStr, t)]
       ELSE IF Len(patients) = 1
            THEN [patient |-> patients[1], status |-> "FOUND",
                  ctx |-> set_active_patient(patients[1].patient_id, patients[1].name,
                                             patients[1].gender, NoneStr, t)]
       ELSE IF Len(patients) > 1
            THEN [patient |-> NoPatient, status |-> "AMBIGUOUS", ctx |-> r.ctx]
       ELSE [patient |-> NoPatient, status |-> "NOT_FOUND", ctx |-> r.ctx]
       : r \in {resolve_patient_reference(q, c, t)} })

\* _fetch_history(patient_id, db, limit): the number of rows fetched
_fetch_history(patient_id, limit) == Min(HistoryCount[patient_id], limit)

\* fetch_weighted_history(patient_id, db, limit): the number of records selected
fetch_weighted_history(patient_id, limit) ==
    IF HistoryCount[patient_id] = 0 THEN 0 ELSE Min(HistoryCount[patient_id], limit)

\* retrieve_context for a non-blank query (chat refuses a blank one before)
retrieve_context(q, c, t) ==
    LET intent == OfQuery[q].detect_intent
    IN The({
       IF ip.status = "AMBIGUOUS"
       THEN [patient |-> NoPatient, history |-> 0, intent |-> NoneStr,
             status |-> "AMBIGUOUS",
             matching_patients |-> OfQuery[q].find_patients_by_name, ctx |-> ip.ctx]
       ELSE IF ip.patient = NoPatient
       THEN [patient |-> NoPatient, history |-> 0, intent |-> NoneStr,
             status |-> "NOT_FOUND", matching_patients |-> <<>>, ctx |-> ip.ctx]
       ELSE [patient |-> ip.patient,
             history |-> IF intent = "HISTORY_SUMMARY"
                         THEN _fetch_history(ip.patient.patient_id, 5) ELSE 0,
             intent |-> intent, status |-> "FOUND", matching_patients |-> <<>>,
             ctx |-> ip.ctx]
       : ip \in {_identify_patient(q, c, t)} })

----------------------------------------------------------------------------
(* llm/mistral.py and rag/summary_cache.py *)

\* what one call of the model does: it raises, or it returns a raw text
GenBehaviours == {[raises |-> TRUE, text |-> ""],
                  [raises |-> FALSE, text |-> "  "],
                  [raises |-> FALSE, text |-> " Stable course. "]}

\* str.strip() on the texts of the model
Strip(s) ==
    CASE s = "  " -> ""
      [] s = " Stable course. " -> "Stable course."
      [] OTHER -> s

\* mistral.generate(prompt) when the model behaves as g; a prompt is the
\* sequence of its sections
generate(prompt, g) ==
    IF prompt = <<>> THEN [raises |-> FALSE, text |-> ""]
    ELSE IF g.raises THEN [raises |-> TRUE, text |-> ""]
    ELSE [raises |-> FALSE, text |-> Strip(g.text)]

\* the prompt of generate_patient_summary
SummaryPrompt(patient, history) == <<"SUMMARY_PROMPT_TEMPLATE", patient.name, history>>

EmptyCache == [p \in PatientIds |-> NoneStr]

get_cached_summary(cch, patient_id) == cch[patient_id]

\* a faulty save_summary that never commits
save_summary_notCommitted(cch, patient_id, summary_text) == cch

save_summary(cch, patient_id, summary_text) ==
    [cch EXCEPT ![patient_id] = summary_text]

\* a faulty get_or_generate_summary that generates before it looks in the cache
get_or_generate_summary_eager(patient, history, cch, g) ==
    LET cached == get_cached_summary(cch, patient.patient_id)
        gen == generate(SummaryPrompt(patient, history), g)
        summary == gen.text
        called == IF Strip(summary) = "" THEN <<"empty">> ELSE <<"text">>
    IN IF gen.raises
       THEN [raises |-> TRUE, summary |-> "", cache_hit |-> FALSE, cache |-> cch,
             gen |-> <<"raised">>]
       ELSE IF Truthy(cached)
       THEN [raises |-> FALSE, summary |-> cached, cache_hit |-> TRUE, cache |-> cch,
             gen |-> called]
       ELSE [raises |-> FALSE,
             summary |-> IF Truthy(summary) THEN Strip(summary) ELSE "",
             cache_hit |-> FALSE,
             cache |-> IF Truthy(summary) /\ Strip(summary) # ""
                       THEN save_summary(cch, patient.patient_id, Strip(summary))
                       ELSE cch,
             gen |-> called]

\* get_or_generate_summary; raises = TRUE when generate() raised out of it
get_or_generate_summary(patient, history, cch, g) ==
    LET cached == get_cached_summary(cch, patient.patient_id)
        gen == generate(SummaryPrompt(patient, history), g)
        summary == gen.text
    IN IF Truthy(cached)
       THEN [raises |-> FALSE, summary |-> cached, cache_hit |-> TRUE, cache |-> cch,
             gen |-> <<>>]
       ELSE IF gen.raises
       THEN [raises |-> TRUE, summary |-> "", cache_hit |-> FALSE, cache |-> cch,
             gen |-> <<"raised">>]
       ELSE [raises |-> FALSE,
             summary |-> IF Truthy(summary) THEN Strip(summary) ELSE "",
             cache_hit |-> FALSE,
             cache |-> IF Truthy(summary) /\ Strip(summary) # ""
                       THEN save_summary(cch, patient.patient_id, Strip(summary))
                       ELSE cch,
             gen |-> IF Strip(summary) = "" THEN <<"empty">> ELSE <<"text">>]

\* prompt_builder.build_prompt: the sections of the prompt
build_prompt(patient, history, intent, q) ==
    <<"SYSTEM_PROMPT", "Patient Information">>
    \o (IF intent = "HISTORY_SUMMARY" /\ history > 0 THEN <<"Patient History">> ELSE <<>>)
    \o <<"Question">>

----------------------------------------------------------------------------
(* api/chat.py *)

\* format_factual_response: the patient's name, the field and the value shown
format_factual_response(patient, field) ==
    CASE field = "primary_condition" ->
            <<patient.name, "is diagnosed with",
              IF Truthy(patient.primary_condition) THEN patient.primary_condition
              ELSE "no known condition">>
      [] field = "age" ->
            IF patient.age # 0 THEN <<patient.name, "is", patient.age, "years old">>
            ELSE <<"Age information is not available for", patient.name>>
      [] field = "gender" ->
            <<patient.name, "gender is",
              IF Truthy(patient.gender) THEN patient.gender ELSE "not specified">>
      [] field = "risk_level" ->
            <<patient.name, "has risk level",
              IF Truthy(patient.risk_level) THEN patient.risk_level ELSE "not assessed">>
      [] OTHER -> <<"Information is not available about", field>>

\* format_severity_response: the name and the recorded risk level it reports
format_severity_response(patient) ==
    <<"Based on available records for", patient.name,
      IF Truthy(patient.risk_level) THEN patient.risk_level ELSE "unknown">>

\* a faulty clarification that adds the "...and N more" line from five matches on
Clarification_fromFive(matching) ==
    LET count == Len(matching)
        shown == Take(matching, 5)
    IN <<"Multiple patients found", count,
         [i \in 1..Len(shown) |-> <<shown[i].name, shown[i].age>>],
         IF count >= 5 THEN <<count - 5>> ELSE <<>>>>

\* the clarification text (lines 126-137): the header with the match count, the
\* patient lines "name, age n", and the "...and N more" line (<<N>>) if there is one
Clarification(matching) ==
    LET count == Len(matching)
        shown == Take(matching, 5)
    IN <<"Multiple patients found", count,
         [i \in 1..Len(shown) |-> <<shown[i].name, shown[i].age>>],
         IF count > 5 THEN <<count - 5>> ELSE <<>>>>

\* what one run of chat() did: the response returned (NoResponse when an
\* exception left chat()), the context store and summary cache it leaves, the
\* path it took, and the prompt the COMPLEX section gave to generate() (<<>>
\* when that call was not reached)
NoResponse == [answer |-> <<>>, confidence |-> NoneStr, evidence |-> <<>>]

Ran(resp, raised, c, cch, gen, method, patient, qtype, rtype, path, cache_hit) ==
    [resp |-> resp, raised |-> raised, ctx |-> c, cache |-> cch, gen |-> gen,
     method |-> method, patient |-> patient, qtype |-> qtype, rtype |-> rtype,
     path |-> path, cache_hit |-> cache_hit, prompt |-> <<>>]

\* a refusal returned before the query is classified
RefuseEarly(answer, evidence, c, cch, method, path, e) ==
    Ran(build_response(answer, "REFUSAL", evidence, e), FALSE, c, cch, <<>>, method,
        NoId, NoneStr, "REFUSAL", path, FALSE)

\* the COMPLEX section of chat() (lines 269-338); gen lists the results of the
\* generate() calls made so far in the request and g is the model's behaviour
\* on the next call
ComplexPath(q, patient, intent, c, cch, gen, method, qtype, g, e) ==
    LET full_history == fetch_weighted_history(patient.patient_id, 5)
        base_prompt == build_prompt(patient, full_history, intent, q)
        enhanced_prompt == base_prompt \o <<"trend_context">>
        llm == generate(enhanced_prompt, g)
        \* the prompt that generate() was given
        Sent(r) == [r EXCEPT !.prompt = enhanced_prompt]
        Refuse(answer, gens, path) ==
            Ran(build_response(answer, "REFUSAL",
                               get_refusal_evidence("INSUFFICIENT_DATA"), e),
                FALSE, c, cch, gens, method, patient.patient_id, qtype, "REFUSAL",
                path, FALSE)
    IN IF base_prompt = <<>>
       THEN Refuse(<<"I do not have enough information to answer that.">>, gen,
                   "EMPTY_PROMPT")
       ELSE IF llm.raises
       THEN Sent(Refuse(<<"I am unable to generate a response at the moment.">>,
                        Append(gen, "raised"), "GENERATION_FAILED"))
       ELSE IF ~Truthy(llm.text) \/ Strip(llm.text) = ""
       THEN Sent(Refuse(<<"I do not have enough information to answer that.">>,
                        Append(gen, "empty"), "GENERATION_EMPTY"))
       ELSE Sent(Ran(build_response(<<llm.text>>, "COMPLEX", get_complex_evidence, e),
                     FALSE, c, cch, Append(gen, "text"), method, patient.patient_id,
                     qtype, "COMPLEX", "COMPLEX", FALSE))

\* the SUMMARY section of chat() (lines 248-267), falling through to COMPLEX
SummaryPath(q, patient, intent, c, cch, method, g1, g2, e) ==
    LET full_history == _fetch_history(patient.patient_id, 10)
    IN The({
       IF s.raises
       THEN Ran(NoResponse, TRUE, c, s.cache, s.gen, method, patient.patient_id,
                "SUMMARY", NoneStr, "UNHANDLED_EXCEPTION", FALSE)
       ELSE IF Truthy(s.summary) /\ Strip(s.summary) # ""
       THEN Ran(build_response(<<s.summary>>,
                               IF s.cache_hit THEN "SUMMARY_HIT" ELSE "SUMMARY_MISS",
                               get_summary_evidence(s.cache_hit), e),
                FALSE, c, s.cache, s.gen, method, patient.patient_id, "SUMMARY",
                IF s.cache_hit THEN "SUMMARY_HIT" ELSE "SUMMARY_MISS", "SUMMARY",
                s.cache_hit)
       ELSE ComplexPath(q, patient, intent, c, s.cache, s.gen, method, "SUMMARY",
                        IF s.gen = <<>> THEN g1 ELSE g2, e)
       : s \in {get_or_generate_summary(patient, full_history, cch, g1)} })

\* a faulty SEVERITY_ASSESSMENT section that passes the SEVERITY_ASSESSMENT type
\* to build_response also when there is no data
SeverityPath_noRefusal(patient, c, cch, method, e) ==
    LET weighted_history == fetch_weighted_history(patient.patient_id, 5)
        has_data == Truthy(patient.risk_level) \/ weighted_history > 0
    IN Ran(build_response(format_severity_response(patient), "SEVERITY_ASSESSMENT",
                          IF has_data
                          THEN <<"patients.risk_level", "patient_history (weighted)">>
                          ELSE <<"no severity metrics available">>, e),
           FALSE, c, cch, <<>>, method, patient.patient_id, "SEVERITY_ASSESSMENT",
           "SEVERITY_ASSESSMENT", IF has_data THEN "SEVERITY" ELSE "SEVERITY_NO_DATA",
           FALSE)

\* the SEVERITY_ASSESSMENT section of chat() (lines 206-243)
SeverityPath(patient, c, cch, method, e) ==
    LET weighted_history == fetch_weighted_history(patient.patient_id, 5)
        has_data == Truthy(patient.risk_level) \/ weighted_history > 0
        rtype == IF has_data THEN "SEVERITY_ASSESSMENT" ELSE "REFUSAL"
    IN Ran(build_response(format_severity_response(patient), rtype,
                          IF has_data
                          THEN <<"patients.risk_level", "patient_history (weighted)">>
                          ELSE <<"no severity metrics available">>, e),
           FALSE, c, cch, <<>>, method, patient.patient_id, "SEVERITY_ASSESSMENT",
           rtype, IF has_data THEN "SEVERITY" ELSE "SEVERITY_NO_DATA", FALSE)

\* chat() from STEP 3 on (lines 180-338): classify and route
Route(q, patient, intent, c, cch, method, g1, g2, e) ==
    LET classification == OfQuery[q].classify_query
        query_type == classification.type
        field == classification.field
    IN IF query_type = "FACTUAL" /\ Truthy(field)
       THEN Ran(build_response(format_factual_response(patient, field), "FACTUAL",
                               get_factual_evidence(field), e),
                FALSE, c, cch, <<>>, method, patient.patient_id, query_type, "FACTUAL",
                "FACTUAL", FALSE)
       ELSE IF query_type = "SEVERITY_ASSESSMENT"
       THEN SeverityPath(patient, c, cch, method, e)
       ELSE IF query_type = "SUMMARY"
       THEN SummaryPath(q, patient, intent, c, cch, method, g1, g2, e)
       ELSE ComplexPath(q, patient, intent, c, cch, <<>>, method, query_type, g1, e)

\* STEP 2 of chat() (lines 108-178): standard retrieval
RetrievalPath(q, c, cch, t, g1, g2, e) ==
    The({
       IF context.status = "AMBIGUOUS"
       THEN RefuseEarly(Clarification(context.matching_patients),
                        <<"ambiguous_patient_reference">>, context.ctx, cch,
                        "AMBIGUOUS", "AMBIGUOUS", e)
       ELSE IF context.status = "NOT_FOUND"
       THEN RefuseEarly(<<"No matching patient found. Please check the spelling or provide more details.">>,
                        get_refusal_evidence("PATIENT_NOT_FOUND"), context.ctx, cch,
                        "NOT_FOUND", "NOT_FOUND", e)
       ELSE IF context.patient = NoPatient \/ context.intent = NoneStr
       THEN RefuseEarly(<<"I do not have enough information to answer that.">>,
                        get_refusal_evidence("INSUFFICIENT_DATA"),
                        update_context_from_patient(context.patient, context.ctx, t),
                        cch, context.status, "MISSING_FIELDS", e)
       ELSE The({ Route(q, context.patient, context.intent, c2, cch, context.status,
                        g1, g2, e)
                  : c2 \in {update_context_from_patient(context.patient,
                                                         context.ctx, t)} })
       : context \in {retrieve_context(q, c, t)} })

\* chat(), given the result r1 of its call of resolve_patient_reference (line 77)
chatWith(q, r1, c, cch, t, g1, g2, e) ==
    IF IsBlank(q)
    THEN RefuseEarly(<<"Please provide a question to get started.">>,
                     get_refusal_evidence("INSUFFICIENT_DATA"), c, cch,
                     NoneStr, "EMPTY_QUERY", e)
    ELSE IF r1.method = "GENDER_MISMATCH"
    THEN RefuseEarly(<<"I'm not sure which patient you're referring to. Could you please specify the patient's name?">>,
                     get_refusal_evidence("GENDER_MISMATCH"), r1.ctx, cch,
                     "GENDER_MISMATCH", "GENDER_MISMATCH", e)
    ELSE IF r1.method = "NO_CONTEXT"
    THEN RefuseEarly(<<"I'm not sure which patient you're referring to. Could you please specify the patient's name?">>,
                     get_refusal_evidence("NO_CONTEXT"), r1.ctx, cch,
                     "NO_CONTEXT", "NO_CONTEXT", e)
    ELSE IF r1.patient # NoPatient /\ r1.method \in {"PRONOUN", "POSSESSIVE"}
    THEN The({ Route(q, patient, "HISTORY_SUMMARY", r1.ctx, cch, r1.method, g1, g2, e)
               : patient \in {r1.patient} })
    ELSE RetrievalPath(q, r1.ctx, cch, t, g1, g2, e)

\* chat() run without interruption at time t
chat(q, c, cch, t, g1, g2, e) ==
    The({ chatWith(q, r1, c, cch, t, g1, g2, e)
          : r1 \in {resolve_patient_reference(q, c, t)} })

----------------------------------------------------------------------------
(* Visit records: date strings and note texts *)

\* a date string "a<sep>b<sep>c": the numbers are written with two digits, a
\* number from 1000 on with four; NoDate is None
Date(sep, a, b, c) == [sep |-> sep, f |-> <<a, b, c>>]

NoDate == [sep |-> NoneStr, f |-> <<>>]

\* the characters of a date string as ASCII codes ("" for None)
DigitChars(n) ==
    IF n >= 1000
    THEN <<48 + (n \div 1000), 48 + ((n \div 100) % 10), 48 + ((n \div 10) % 10),
           48 + (n % 10)>>
    ELSE <<48 + ((n \div 10) % 10), 48 + (n % 10)>>

SepChar(sep) == IF sep = "-" THEN 45 ELSE 47

DateChars(d) ==
    IF d = NoDate THEN <<>>
    ELSE DigitChars(d.f[1]) \o <<SepChar(d.sep)>> \o DigitChars(d.f[2])
         \o <<SepChar(d.sep)>> \o DigitChars(d.f[3])

RECURSIVE StrLess(_, _)
\* Python's < on two strings given as character codes
StrLess(a, b) ==
    IF b = <<>> THEN FALSE
    ELSE IF a = <<>> THEN TRUE
    ELSE IF Head(a) # Head(b) THEN Head(a) < Head(b)
    ELSE StrLess(Tail(a), Tail(b))

\* the calendar of the years 2021 to 2027, days counted from 2023-12-31
DaysInMonth(y, m) ==
    CASE m \in {4, 6, 9, 11} -> 30
      [] m = 2 -> IF y = 2024 THEN 29 ELSE 28
      [] OTHER -> 31

RECURSIVE DaysBeforeMonth(_, _)
DaysBeforeMonth(y, m) ==
    IF m <= 1 THEN 0 ELSE DaysBeforeMonth(y, m - 1) + DaysInMonth(y, m - 1)

DayNumber(y, m, d) ==
    (y - 2024) * 365 + (IF y > 2024 THEN 1 ELSE 0) + DaysBeforeMonth(y, m) + d

\* datetime(y, m, d) is a date
ValidDate(y, m, d) == y >= 1000 /\ m \in 1..12 /\ d \in 1..DaysInMonth(y, m)

\* keyword counting on a text (None and "" are both the empty text)
NoText == Qy(<<>>)

Text(ws) == Qy([i \in 1..Len(ws) |-> lw(ws[i])])

CountIn(text, keywords) == Cardinality({kw \in keywords : KwIn(text, kw)})

\* stable sorting: the permutation that sorts the integer keys ascending and
\* keeps the input order of equal keys (list.sort, sorted)
StableOrder(keys) ==
    LET n == Len(keys)
        Pos(i) == 1 + Cardinality({j \in 1..n :
                        keys[j] < keys[i] \/ (keys[j] = keys[i] /\ j < i)})
    IN [p \in 1..n |-> CHOOSE i \in 1..n : Pos(i) = p]

----------------------------------------------------------------------------
(* rag/trend_analyzer.py *)

WORSENING_KEYWORDS == {
    <<"exacerbation">>, <<"worsened">>, <<"worsening">>, <<"deteriorated">>,
    <<"deteriorating">>, <<"declined">>, <<"declining">>, <<"acute">>, <<"flare">>,
    <<"flare-up">>, <<"new", "symptoms">>, <<"increased">>, <<"elevated">>,
    <<"severe">>, <<"concerning">>}

IMPROVEMENT_KEYWORDS == {
    <<"improved">>, <<"improving">>, <<"better">>, <<"resolved">>, <<"stable">>,
    <<"well-controlled">>, <<"controlled">>, <<"maintained">>, <<"normal">>,
    <<"progressing", "well">>, <<"recovery">>, <<"recovered">>}

NEUTRAL_KEYWORDS == {
    <<"routine">>, <<"follow-up">>, <<"check">>, <<"review">>, <<"monitoring">>,
    <<"no", "acute">>, <<"no", "change">>, <<"consistent">>, <<"unchanged">>}

_extract_patterns(notes) ==
    [worsening |-> CountIn(notes, WORSENING_KEYWORDS),
     improving |-> CountIn(notes, IMPROVEMENT_KEYWORDS),
     neutral |-> CountIn(notes, NEUTRAL_KEYWORDS)]

RECURSIVE SumOf(_)
\* the sum of a sequence of integers
SumOf(s) == IF s = <<>> THEN 0 ELSE Head(s) + SumOf(Tail(s))

\* rank of h.visit_date or "" among the date strings of the history
DateStringKeys(history) ==
    [i \in 1..Len(history) |->
        Cardinality({j \in 1..Len(history) :
            StrLess(DateChars(history[j].visit_date),
                    DateChars(history[i].visit_date))})]

\* a faulty overall pattern that asks for more than one indicator of each kind
\* before it says INTERMITTENT
OverallPattern_manyForIntermittent(total_worsening, total_improving) ==
    IF total_worsening = 0 /\ total_improving = 0 THEN "NO_CLEAR_TREND"
    ELSE IF total_worsening > total_improving * 2 THEN "WORSENING_TREND"
    ELSE IF total_improving > total_worsening * 2 THEN "IMPROVING_TREND"
    ELSE IF total_worsening > 1 /\ total_improving > 1 THEN "INTERMITTENT"
    ELSE "STABLE"

\* a faulty overall pattern that takes exactly twice as many worsening
\* indicators (>= for >) as a worsening trend
OverallPattern_inclusive(total_worsening, total_improving) ==
    IF total_worsening = 0 /\ total_improving = 0 THEN "NO_CLEAR_TREND"
    ELSE IF total_worsening >= total_improving * 2 THEN "WORSENING_TREND"
    ELSE IF total_improving > total_worsening * 2 THEN "IMPROVING_TREND"
    ELSE IF total_worsening > 0 /\ total_improving > 0 THEN "INTERMITTENT"
    ELSE "STABLE"

\* the overall pattern of analyze_trend from the totals
OverallPattern(total_worsening, total_improving) ==
    IF total_worsening = 0 /\ total_improving = 0 THEN "NO_CLEAR_TREND"
    ELSE IF total_worsening > total_improving * 2 THEN "WORSENING_TREND"
    ELSE IF total_improving > total_worsening * 2 THEN "IMPROVING_TREND"
    ELSE IF total_worsening > 0 /\ total_improving > 0 THEN "INTERMITTENT"
    ELSE "STABLE"

\* the summary sentence of analyze_trend: which sentence, and the numbers
\* written into it
TrendSummary(pattern, total_worsening, total_improving, total_neutral) ==
    CASE pattern = "NO_CLEAR_TREND" ->
           <<"Visit notes do not contain explicit indicators of symptom progression or worsening.">>
      [] pattern = "WORSENING_TREND" ->
           <<"Notes indicate potential worsening trend", total_worsening, total_improving>>
      [] pattern = "IMPROVING_TREND" ->
           <<"Notes indicate improvement trend", total_improving, total_worsening>>
      [] pattern = "INTERMITTENT" ->
           <<"Notes show intermittent pattern with both improvements and exacerbations",
             total_improving, total_worsening>>
      [] pattern = "STABLE" ->
           <<"Notes indicate generally stable condition", total_neutral>>
      [] OTHER -> <<"No visit history available for trend analysis.">>

VisitTrend(patterns) ==
    IF patterns.worsening > patterns.improving THEN "WORSENING"
    ELSE IF patterns.improving > patterns.worsening THEN "IMPROVING"
    ELSE "STABLE"

analyze_trend(patient_history) ==
    IF patient_history = <<>>
    THEN [has_history |-> FALSE, visit_count |-> 0, pattern |-> "INSUFFICIENT_DATA",
          summary |-> TrendSummary("INSUFFICIENT_DATA", 0, 0, 0),
          total_worsening |-> 0, total_improving |-> 0, total_neutral |-> 0,
          details |-> <<>>]
    ELSE The({ The({ The({
        [has_history |-> TRUE,
         visit_count |-> Len(sorted_history),
         pattern |-> OverallPattern(total[1], total[2]),
         summary |-> TrendSummary(OverallPattern(total[1], total[2]),
                                  total[1], total[2], total[3]),
         total_worsening |-> total[1],
         total_improving |-> total[2],
         total_neutral |-> total[3],
         details |-> [i \in 1..Len(sorted_history) |->
                        [date |-> sorted_history[i].visit_date,
                         trend |-> VisitTrend(patterns[i]),
                         notes_snippet |-> sorted_history[i].notes]]]
        : total \in
            {<<SumOf([i \in 1..Len(patterns) |-> patterns[i].worsening]),
               SumOf([i \in 1..Len(patterns) |-> patterns[i].improving]),
               SumOf([i \in 1..Len(patterns) |-> patterns[i].neutral])>>}})
        : patterns \in
            {[i \in 1..Len(sorted_history) |->
                _extract_patterns(sorted_history[i].notes)]}})
        : sorted_history \in
            {[p \in 1..Len(patient_history) |->
                patient_history[StableOrder(DateStringKeys(patient_history))[p]]]}})

\* the grounding note of format_trend_context
NoWorseningNote ==
    "- NOTE: There is NO consistent worsening pattern documented in the visit notes."

\* a faulty format_trend_context that leaves the note out for STABLE
format_trend_context_noStable(trend_result) ==
    IF ~trend_result.has_history
    THEN <<"Trend Analysis: No visit history available.">>
    ELSE <<"Trend Analysis:",
           <<"- Total visits analyzed:", trend_result.visit_count>>,
           <<"- Overall pattern:", trend_result.pattern>>,
           <<"-", trend_result.summary>>>>
         \o (IF trend_result.pattern \in {"NO_CLEAR_TREND", "INTERMITTENT"}
             THEN <<NoWorseningNote>> ELSE <<>>)

\* format_trend_context: the lines of the text
format_trend_context(trend_result) ==
    IF ~trend_result.has_history
    THEN <<"Trend Analysis: No visit history available.">>
    ELSE <<"Trend Analysis:",
           <<"- Total visits analyzed:", trend_result.visit_count>>,
           <<"- Overall pattern:", trend_result.pattern>>,
           <<"-", trend_result.summary>>>>
         \o (IF trend_result.pattern \in {"NO_CLEAR_TREND", "STABLE", "INTERMITTENT"}
             THEN <<NoWorseningNote>> ELSE <<>>)

----------------------------------------------------------------------------
(* rag/relevance_scorer.py *)

CLINICAL_SIGNAL_KEYWORDS == {
    <<<<"exacerbation">>, 3>>, <<<<"worsened">>, 3>>, <<<<"worsening">>, 3>>,
    <<<<"deteriorated">>, 3>>, <<<<"hospitalization">>, 4>>,
    <<<<"hospitalized">>, 4>>, <<<<"emergency">>, 4>>, <<<<"new", "symptoms">>, 3>>,
    <<<<"complication">>, 3>>, <<<<"flare">>, 2>>, <<<<"acute">>, 2>>,
    <<<<"adjusted">>, 2>>, <<<<"changed", "medication">>, 3>>,
    <<<<"new", "medication">>, 3>>, <<<<"increased", "dosage">>, 2>>,
    <<<<"surgery">>, 4>>, <<<<"procedure">>, 2>>,
    <<<<"improved">>, 2>>, <<<<"recovery">>, 2>>, <<<<"resolved">>, 2>>}

ROUTINE_KEYWORDS == {
    <<<<"stable">>, -1>>, <<<<"routine">>, -2>>, <<<<"no", "acute">>, -1>>,
    <<<<"no", "concerns">>, -1>>, <<<<"well-controlled">>, -1>>,
    <<<<"unchanged">>, -1>>, <<<<"follow-up">>, -1>>, <<<<"regular", "check">>, -2>>}

\* datetime.min
DateMin == -999999

\* datetime.now(), as a day of the calendar
Today == DayNumber(2025, 1, 15)

\* the formats are tried in order: %Y-%m-%d, %Y/%m/%d, %d-%m-%Y, %d/%m/%Y,
\* %m/%d/%Y; %Y takes four digits, %d and %m at most two
_parse_date(date_str) ==
    IF date_str = NoDate THEN DateMin
    ELSE LET sep == date_str.sep
             a == date_str.f[1]
             b == date_str.f[2]
             c == date_str.f[3]
         IN IF sep = "-" /\ a >= 1000 /\ c < 100 /\ ValidDate(a, b, c)
            THEN DayNumber(a, b, c)
            ELSE IF sep = "/" /\ a >= 1000 /\ c < 100 /\ ValidDate(a, b, c)
            THEN DayNumber(a, b, c)
            ELSE IF sep = "-" /\ a < 100 /\ c >= 1000 /\ ValidDate(c, b, a)
            THEN DayNumber(c, b, a)
            ELSE IF sep = "/" /\ a < 100 /\ c >= 1000 /\ ValidDate(c, b, a)
            THEN DayNumber(c, b, a)
            ELSE IF sep = "/" /\ a < 100 /\ c >= 1000 /\ ValidDate(c, a, b)
            THEN DayNumber(c, a, b)
            ELSE DateMin

_calculate_recency_score(visit_date) ==
    LET parsed_date == _parse_date(visit_date)
        days_ago == Today - parsed_date
    IN IF parsed_date = DateMin THEN 0
       ELSE IF days_ago <= 30 THEN 10
       ELSE IF days_ago <= 90 THEN 8
       ELSE IF days_ago <= 180 THEN 6
       ELSE IF days_ago <= 365 THEN 4
       ELSE IF days_ago <= 730 THEN 2
       ELSE 1

\* the sum of the weights of the keywords of a table that occur in the text
WeightSum(text, table) ==
    LET N(w) == Cardinality({e \in table : e[2] = w /\ KwIn(text, e[1])})
    IN 4 * N(4) + 3 * N(3) + 2 * N(2) - N(-1) - 2 * N(-2)

\* text = f"{notes or ''} {treatment or ''}".lower()
_calculate_clinical_signal_score(notes, treatment) ==
    LET text == Qy(notes.toks \o treatment.toks)
    IN WeightSum(text, CLINICAL_SIGNAL_KEYWORDS) + WeightSum(text, ROUTINE_KEYWORDS)

\* the rounding error of the double (recency * 0.4) + (clinical * 0.6), in units
\* in the last place above the double nearest to (4 recency + 6 clinical) / 10,
\* for the recency scores and for clinical scores from -3 to 5
RoundingUlps(recency, clinical) ==
    CASE <<recency, clinical>> \in {<<0, 3>>, <<1, 3>>, <<2, 3>>} -> -1
      [] <<recency, clinical>> \in {<<0, -3>>, <<1, -2>>, <<6, -1>>, <<6, 0>>,
                                    <<6, 1>>, <<6, 2>>, <<6, 4>>, <<8, 1>>} -> 1
      [] <<recency, clinical>> \in {<<1, -1>>, <<2, -3>>, <<2, -2>>, <<2, -1>>,
                                    <<4, -2>>, <<6, -2>>, <<8, -3>>} -> 2
      [] <<recency, clinical>> = <<6, -3>> -> 5
      [] <<recency, clinical>> = <<4, -3>> -> 10
      [] OTHER -> 0

\* total_score as a double: its value in tenths and its rounding error; doubles
\* compare by the tenths first, then by the error
calculate_relevance_score(history_record) ==
    The({[tenths |-> 4 * recency_score + 6 * clinical_score,
          ulps |-> RoundingUlps(recency_score, clinical_score)]
         : recency_score \in {_calculate_recency_score(history_record.visit_date)},
           clinical_score \in {_calculate_clinical_signal_score(
                                   history_record.notes, history_record.treatment)}})

\* an integer that orders the doubles of calculate_relevance_score
ScoreKey(total_score) == total_score.tenths * 32 + total_score.ulps

\* scored_records[:limit]
Slice(s, limit) ==
    IF limit >= 0 THEN Take(s, limit)
    ELSE SubSeq(s, 1, IF Len(s) + limit > 0 THEN Len(s) + limit ELSE 0)

\* a faulty get_weighted_history that leaves the selected records in score order
get_weighted_history_byScore(history_records, limit) ==
    IF history_records = <<>> THEN [records |-> <<>>, details |-> <<>>]
    ELSE LET scored_records ==
                 [i \in 1..Len(history_records) |->
                    [record |-> history_records[i],
                     recency_score |->
                         _calculate_recency_score(history_records[i].visit_date),
                     clinical_score |->
                         _calculate_clinical_signal_score(
                             history_records[i].notes, history_records[i].treatment),
                     total_score |-> calculate_relevance_score(history_records[i]),
                     visit_date |-> history_records[i].visit_date]]
         IN The({
               [records |-> [i \in 1..Len(top_scored) |-> top_scored[i].record],
                details |-> [i \in 1..Len(top_scored) |->
                    [visit_date |-> top_scored[i].visit_date,
                     recency_score |-> top_scored[i].recency_score,
                     clinical_score |-> top_scored[i].clinical_score,
                     total_score |-> top_scored[i].total_score.tenths]]]
               : top_scored \in
                   {Slice([p \in 1..Len(sc) |->
                             sc[StableOrder([i \in 1..Len(sc) |->
                                    -ScoreKey(sc[i].total_score)])[p]]], limit)
                    : sc \in {scored_records}}})

\* the scores of the details are in whole points (recency, clinical) and in
\* tenths (total, which round(total_score, 2) frees of its rounding error)
get_weighted_history(history_records, limit) ==
    IF history_records = <<>> THEN [records |-> <<>>, details |-> <<>>]
    ELSE LET scored_records ==
                 [i \in 1..Len(history_records) |->
                    [record |-> history_records[i],
                     recency_score |->
                         _calculate_recency_score(history_records[i].visit_date),
                     clinical_score |->
                         _calculate_clinical_signal_score(
                             history_records[i].notes, history_records[i].treatment),
                     total_score |-> calculate_relevance_score(history_records[i]),
                     visit_date |-> history_records[i].visit_date]]
         IN The({
               [records |-> [i \in 1..Len(top_scored) |-> top_scored[i].record],
                details |-> [i \in 1..Len(top_scored) |->
                    [visit_date |-> top_scored[i].visit_date,
                     recency_score |-> top_scored[i].recency_score,
                     clinical_score |-> top_scored[i].clinical_score,
                     total_score |-> top_scored[i].total_score.tenths]]]
               : top_scored \in
                   {[p \in 1..Len(top) |->
                        top[StableOrder([i \in 1..Len(top) |->
                               _parse_date(top[i].visit_date)])[p]]]
                    : top \in
                       {Slice([p \in 1..Len(sc) |->
                                 sc[StableOrder([i \in 1..Len(sc) |->
                                        -ScoreKey(sc[i].total_score)])[p]]], limit)
                        : sc \in {scored_records}}}})

\* the patient_history rows of each patient, as many as HistoryCount says
PatientHistory == <<
    <<[visit_date |-> Date("-", 2024, 11, 2), notes |-> Text(<<"stable">>),
       treatment |-> NoText],
      [visit_date |-> Date("-", 2025, 1, 10), notes |-> Text(<<"improved">>),
       treatment |-> NoText]>>,
    <<[visit_date |-> Date("-", 2024, 12, 20), notes |-> Text(<<"worsened">>),
       treatment |-> NoText]>>,
    <<>>,
    <<>> >>

\* the vitals and labs of each patient's encounters, counted; a patient without
\* encounters has none
PatientVitalsLabs == <<
    [vitals_count |-> 2, labs_count |-> 1, abnormal_vitals_count |-> 1,
     abnormal_labs_count |-> 0, present |-> TRUE],
    [vitals_count |-> 1, labs_count |-> 0, abnormal_vitals_count |-> 0,
     abnormal_labs_count |-> 0, present |-> TRUE],
    [vitals_count |-> 0, labs_count |-> 0, abnormal_vitals_count |-> 0,
     abnormal_labs_count |-> 0, present |-> TRUE],
    [vitals_count |-> 0, labs_count |-> 0, abnormal_vitals_count |-> 0,
     abnormal_labs_count |-> 0, present |-> TRUE] >>

\* fetch_vitals_labs_for_patient(patient_id, db): the counts of the result
fetch_vitals_labs_for_patient(patient_id) == PatientVitalsLabs[patient_id]

----------------------------------------------------------------------------
(* rag/synthetic_reasoner.py: the activation gate *)

\* re.search(SYNTHESIS_SIGNAL_PATTERNS[i], query_lower), i counted from 1
SynthesisPatternMatches(q, i) ==
    LET t == q.toks
        n == Len(t)
        \* "over (the )?time" begins at token j and its "time" is token m
        OverTime(j, m) ==
            /\ j >= 1 /\ m <= n /\ ~t[j].poss
            /\ \/ m = j + 1
               \/ m = j + 2 /\ t[j + 1].w = "the" /\ ~t[j + 1].poss
    IN CASE i = 1 -> \/ Rx(q, <<{"overall", "altogether", "combined", "aggregate"}>>)
                     \/ Rx(q, <<{"across"}, {"all"}>>)
         [] i = 2 -> Rx(q, <<{"big", "whole", "full"}, {"picture"}>>)
         [] i = 3 -> \/ Rx(q, <<{"pattern", "patterns", "trend", "trends"}, {"across"}>>)
                     \/ Rx(q, <<{"data"}, {"together", "combined"}>>)
         [] i = 4 -> \/ Rx(q, <<{"history"}, {"and"}, {"vital", "vitals", "lab", "labs"}>>)
                     \/ Rx(q, <<{"vital", "vitals"}, {"and"}, {"lab", "labs"}>>)
         [] i = 5 -> Rx(q, <<{"all"}, {"the", "her", "his", "their"}, {"data"}>>)
         [] i = 6 -> \/ Rx(q, <<{"looking"}, {"at"}, {"everything"}>>)
                     \/ Rx(q, <<{"considering"}, {"all"}>>)
                     \/ Rx(q, <<{"taking"}, {"into"}, {"account"}>>)
         [] i = 7 -> \/ Rx(q, <<{"synthesis", "synthesize"}>>)
                     \/ Rx(q, <<{"comprehensive"}, {"view"}>>)
         [] i = 8 -> \/ \E j \in 1..n : \E m \in 1..n : \E k \in 1..n :
                           /\ OverTime(j, m) /\ t[j].w = "over"
                           /\ StartsWith(t[m].w, "time")
                           /\ k > m /\ EndsWith(t[k].w, "together")
                     \/ \E k \in 1..n : \E j \in 1..n : \E m \in 1..n :
                           /\ StartsWith(t[k].w, "together") /\ j > k
                           /\ OverTime(j, m) /\ EndsWith(t[j].w, "over")
                           /\ t[m].w = "time"
         [] OTHER -> FALSE

\* the indexes of the matched patterns; has_signals is that some pattern matched
_has_synthesis_signals(q) == {i \in 1..8 : SynthesisPatternMatches(q, i)}

\* a visit_date is kept when it is neither None nor ""
_has_temporal_variation(history_records) ==
    IF Len(history_records) < 2 THEN FALSE
    ELSE Cardinality({history_records[i].visit_date : i \in 1..Len(history_records)}
                     \ {NoDate}) >= 2

\* None, or {} (no key: every count defaults to 0)
NoVitalsLabs == [vitals_count |-> 0, labs_count |-> 0, abnormal_vitals_count |-> 0,
                 abnormal_labs_count |-> 0, present |-> FALSE]

_has_mixed_signals(vitals_labs_info) ==
    IF ~vitals_labs_info.present THEN FALSE
    ELSE LET normal_vitals == vitals_labs_info.vitals_count
                                - vitals_labs_info.abnormal_vitals_count
             normal_labs == vitals_labs_info.labs_count
                              - vitals_labs_info.abnormal_labs_count
             has_abnormal == vitals_labs_info.abnormal_vitals_count > 0
                             \/ vitals_labs_info.abnormal_labs_count > 0
             has_normal == normal_vitals > 0 \/ normal_labs > 0
         IN has_abnormal /\ has_normal

\* a faulty count that takes vitals and labs as sources only when both have data
_count_data_sources_vitalsWithLabs(history_count, vitals_count, labs_count) ==
    (IF history_count > 0 THEN 1 ELSE 0)
    + (IF vitals_count > 0 /\ labs_count > 0 THEN 2 ELSE 0)

_count_data_sources(history_count, vitals_count, labs_count) ==
    (IF history_count > 0 THEN 1 ELSE 0) + (IF vitals_count > 0 THEN 1 ELSE 0)
    + (IF labs_count > 0 THEN 1 ELSE 0)

\* a faulty gate that does not ask for temporal variation in the history
should_activate_synthetic_reasoning_noVariation(query_type, q, history_records, vitals_labs_info, patient_is_valid) ==
    IF query_type # "COMPLEX"
    THEN [activate |-> FALSE, reason |-> "Not a COMPLEX query type"]
    ELSE IF ~patient_is_valid
    THEN [activate |-> FALSE, reason |-> "Patient identity is ambiguous or invalid"]
    ELSE IF _has_synthesis_signals(q) = {}
    THEN [activate |-> FALSE, reason |-> "No synthesis signals detected in query"]
    ELSE IF _count_data_sources(Len(history_records), vitals_labs_info.vitals_count,
                                vitals_labs_info.labs_count) < 2
    THEN [activate |-> FALSE, reason |-> "Insufficient data sources"]
    ELSE IF ~_has_mixed_signals(vitals_labs_info)
    THEN [activate |-> FALSE,
          reason |-> "No mixed signals (abnormal + normal) in vitals/labs"]
    ELSE [activate |-> TRUE, reason |-> "All activation rules passed"]

should_activate_synthetic_reasoning(query_type, q, history_records, vitals_labs_info, patient_is_valid) ==
    IF query_type # "COMPLEX"
    THEN [activate |-> FALSE, reason |-> "Not a COMPLEX query type"]
    ELSE IF ~patient_is_valid
    THEN [activate |-> FALSE, reason |-> "Patient identity is ambiguous or invalid"]
    ELSE IF _has_synthesis_signals(q) = {}
    THEN [activate |-> FALSE, reason |-> "No synthesis signals detected in query"]
    ELSE IF _count_data_sources(Len(history_records), vitals_labs_info.vitals_count,
                                vitals_labs_info.labs_count) < 2
    THEN [activate |-> FALSE, reason |-> "Insufficient data sources"]
    ELSE IF ~_has_temporal_variation(history_records)
    THEN [activate |-> FALSE, reason |-> "No temporal variation in history records"]
    ELSE IF ~_has_mixed_signals(vitals_labs_info)
    THEN [activate |-> FALSE,
          reason |-> "No mixed signals (abnormal + normal) in vitals/labs"]
    ELSE [activate |-> TRUE, reason |-> "All activation rules passed"]

----------------------------------------------------------------------------
(* The requests and direct calls the model makes *)

\* the elapsed milliseconds chat() measures
ElapsedMs == {12}

NoRequest ==
    [seen |-> FALSE, query |-> Qy(<<>>), resp |-> NoResponse, raised |-> FALSE,
     gen |-> <<>>, method |-> NoneStr, patient |-> NoId, qtype |-> NoneStr,
     rtype |-> NoneStr, path |-> NoneStr, cache_hit |-> FALSE, prompt |-> <<>>]

NoReads ==
    [seen |-> FALSE, id |-> NoId, name |-> <<>>, gender |-> NoneStr, qtype |-> NoneStr,
     timestamp |-> NoTime, has_active |-> FALSE,
     summary |-> get_memory_summary(EmptyContext, 0)]

Threads == 1..NumThreads

IdleThread == [pc |-> "idle", query |-> Qy(<<>>), active |-> FALSE,
               checked_id |-> NoId, read_id |-> NoId, method |-> NoneStr,
               patient |-> NoId]

NoCall == [called |-> FALSE, answer |-> <<>>, response_type |-> NoneStr,
           evidence |-> <<>>, timing_ms |-> NoTime,
           result |-> build_response(<<>>, NoneStr, <<>>, NoTime),
           prev_type |-> NoneStr, prev_confidence |-> NoneStr]

\* no pure function has been called directly
NoFn == [op |-> NoneStr]

Init ==
    /\ now = 0
    /\ ctx = EmptyContext
    /\ cache = EmptyCache
    /\ last = NoRequest
    /\ reads = NoReads
    /\ thr = [i \in Threads |-> IdleThread]
    /\ br = NoCall
    /\ fn = NoFn

----------------------------------------------------------------------------
(* Requests served one at a time *)

\* one POST /chat, handled from start to end at time now
Chat ==
    \E q \in Queries, g1 \in GenBehaviours, e \in ElapsedMs :
      \E g2 \in IF g1.raises \/ Strip(g1.text) # "" THEN {g1} ELSE GenBehaviours :
        \E r \in {chat(q, ctx, cache, now, g1, g2, e)} :
           /\ ctx' = r.ctx
           /\ cache' = r.cache
           /\ last' = [seen |-> TRUE, query |-> q, resp |-> r.resp, raised |-> r.raised,
                       gen |-> r.gen, method |-> r.method, patient |-> r.patient,
                       qtype |-> r.qtype, rtype |-> r.rtype, path |-> r.path,
                       cache_hit |-> r.cache_hit, prompt |-> r.prompt]
           /\ reads' = NoReads
           /\ UNCHANGED <<now, thr, br, fn>>

\* time passes between requests
Tick ==
    \E d \in TickSteps :
        /\ now + d <= MaxTime
        /\ now' = now + d
        /\ last' = NoRequest
        /\ reads' = NoReads
        /\ UNCHANGED <<ctx, cache, thr, br, fn>>

\* ConversationContext.clear()
Clear ==
    /\ ctx' = EmptyContext
    /\ last' = NoRequest
    /\ reads' = NoReads
    /\ UNCHANGED <<now, cache, thr, br, fn>>

\* every read operation of the context store, performed at time now
ReadContext ==
    /\ reads' = [seen |-> TRUE,
                 id |-> get_active_patient_id(ctx, now),
                 name |-> get_active_patient_name(ctx, now),
                 gender |-> get_active_patient_gender(ctx, now),
                 qtype |-> get_last_query_type(ctx, now),
                 timestamp |-> get_timestamp(ctx),
                 has_active |-> has_active_patient(ctx, now),
                 summary |-> get_memory_summary(ctx, now)]
    /\ last' = NoRequest
    /\ UNCHANGED <<now, ctx, cache, thr, br, fn>>

Next == Chat \/ Tick \/ Clear \/ ReadContext

Spec == Init /\ [][Next]_vars

----------------------------------------------------------------------------
(* build_response called directly *)

Answers == {<<>>, <<"Stable course.">>, <<"Sarah Patel", "is", 47, "years old">>}

Evidences == {<<>>, <<"patients.age">>, <<"cached_patient_summary">>}

Timings == {NoTime, 0, 12}

\* one call of build_response; br keeps the call and the result, and the type
\* and confidence of the call before it
BuildResponseCall ==
    \E answer \in Answers, response_type \in ResponseTypes \cup {"UNKNOWN"},
       evidence \in Evidences, timing_ms \in Timings :
        /\ br' = [called |-> TRUE, answer |-> answer, response_type |-> response_type,
                  evidence |-> evidence, timing_ms |-> timing_ms,
                  result |-> build_response(answer, response_type, evidence, timing_ms),
                  prev_type |-> br.response_type,
                  prev_confidence |-> br.result.confidence]
        /\ UNCHANGED <<now, ctx, cache, last, reads, thr, fn>>

SpecBuild == Init /\ [][BuildResponseCall]_vars

----------------------------------------------------------------------------
(* Requests served concurrently: chat() is a synchronous endpoint, which the
   server runs on worker threads, and get_context() is one shared object. Each
   method of ConversationContext is one step (it holds the lock throughout);
   a request that finds an active patient for a pronoun takes two steps, the
   check and the read. *)

\* the interleaved specification serves the requests that never reach the
\* generator
ConcQueries ==
    {q \in Queries :
        OfQuery[q].classify_query.type \in {"FACTUAL", "SEVERITY_ASSESSMENT"}}

\* thread i, idle or done with its last request, takes a pronoun request and
\* has_active_patient() returns True
PronounCheck(i) ==
    \E q \in ConcQueries :
        /\ thr[i].pc \in {"idle", "done"}
        /\ Truthy(OfQuery[q].contains_pronoun)
        /\ has_active_patient(ctx, now)
        /\ thr' = [thr EXCEPT ![i] = [pc |-> "checked", query |-> q, active |-> TRUE,
                                      checked_id |-> ctx.id, read_id |-> NoId,
                                      method |-> NoneStr, patient |-> NoId]]
        /\ UNCHANGED <<now, ctx, cache, last, reads, br, fn>>

\* thread i calls get_active_patient_id() and runs the request to its end
PronounRead(i) ==
    /\ thr[i].pc = "checked"
    /\ \E g \in GenBehaviours, e \in ElapsedMs,
          patient_id \in {get_active_patient_id(ctx, now)} :
        \E r \in {chatWith(thr[i].query,
                           ResolveWith(thr[i].query, TRUE, patient_id, ctx, now),
                           ctx, cache, now, g, g, e)} :
            /\ ctx' = r.ctx
            /\ cache' = r.cache
            /\ thr' = [thr EXCEPT ![i] = [@ EXCEPT !.pc = "done",
                                                   !.read_id = patient_id,
                                                   !.method = r.method,
                                                   !.patient = r.patient]]
    /\ UNCHANGED <<now, last, reads, br, fn>>

\* thread i serves a request whose resolution makes no check-then-read
Request(i) ==
    \E q \in ConcQueries, g \in GenBehaviours, e \in ElapsedMs :
        /\ thr[i].pc \in {"idle", "done"}
        /\ ~(Truthy(OfQuery[q].contains_pronoun) /\ has_active_patient(ctx, now))
        /\ \E r \in {chat(q, ctx, cache, now, g, g, e)} :
            /\ ctx' = r.ctx
            /\ cache' = r.cache
            /\ thr' = [thr EXCEPT ![i] = [pc |-> "done", query |-> q, active |-> FALSE,
                                          checked_id |-> NoId, read_id |-> NoId,
                                          method |-> r.method, patient |-> r.patient]]
        /\ UNCHANGED <<now, last, reads, br, fn>>

NextConc ==
    \/ \E i \in Threads : PronounCheck(i)
    \/ \E i \in Threads : PronounRead(i)
    \/ \E i \in Threads : Request(i)
    \/ Tick

SpecConc == Init /\ [][NextConc]_vars

----------------------------------------------------------------------------
(* classify_query called directly, on texts made of a few phrases, while the
   context store is written between the calls *)

\* the phrases: static-attribute patterns, explicit-factual patterns, severity
\* patterns, qualitative keywords and temporal keywords
Phrases == {
    <<"how", "old">>, <<"how", "bad">>, <<"risk", "level">>, <<"what", "is", "the">>,
    <<"disease">>, <<"condition">>, <<"trend">>, <<"over", "time">>,
    <<"manageable">>, <<"gender">>}

RECURSIVE PhraseTexts(_)
\* the word sequences made of at most n phrases
PhraseTexts(n) ==
    IF n = 0 THEN {<<>>}
    ELSE {t \o p : t \in PhraseTexts(n - 1), p \in Phrases \cup {<<>>}}

ClassifierQueries ==
    {Qy([i \in 1..Len(ws) |-> lw(ws[i])]) : ws \in PhraseTexts(MaxPhrases)}

\* re.search(STATIC_ATTRIBUTE_PATTERNS[i][0], query_lower), i counted from 1
StaticPatternMatches(q, i) ==
    CASE i = 1 -> Rx(q, <<{"how"}, {"old"}>>)
      [] i = 2 -> Rx(q, <<{"age"}>>)
      [] i = 3 -> Rx(q, <<{"years"}, {"old"}>>)
      [] i = 4 -> Rx(q, <<{"diagnosed"}, {"with"}>>)
      [] i = 5 -> Rx(q, <<{"diagnosis"}>>)
      [] i = 6 -> Rx(q, <<{"what"}, {"condition"}>>)
      [] i = 7 -> RxGap(q, <<{"what"}, {"is"}>>, <<{"condition"}>>)
      [] i = 8 -> RxGap(q, <<{"what"}, {"does", "do"}>>, <<{"have"}>>)
      [] i = 9 -> Rx(q, <<{"risk"}, {"level"}>>)
      [] i = 10 -> \/ RxGap(q, <<{"what"}, {"is"}>>, <<{"risk"}, {"level"}>>)
                   \/ RxGap(q, <<{"what"}, {"is"}>>, <<{"risklevel"}>>)
      [] i = 11 -> Rx(q, <<{"gender"}>>)
      [] i = 12 -> Rx(q, <<{"what"}, {"sex"}>>)
      [] OTHER -> FALSE

\* STATIC_ATTRIBUTE_PATTERNS[i][1]
StaticPatternFields == <<
    "age", "age", "age",
    "primary_condition", "primary_condition", "primary_condition",
    "primary_condition", "primary_condition",
    "risk_level", "risk_level",
    "gender", "gender">>

InitClassify ==
    /\ now = 0
    /\ ctx = EmptyContext
    /\ cache = EmptyCache
    /\ last = NoRequest
    /\ reads = NoReads
    /\ thr = [i \in Threads |-> IdleThread]
    /\ br = NoCall
    /\ fn \in {[op |-> "classify_query", query |-> q, results |-> <<>>] :
                   q \in ClassifierQueries}

\* one call of classify_query(query); the result is appended to those of the
\* earlier calls on the same text
ClassifyCall ==
    /\ fn.op = "classify_query"
    /\ Len(fn.results) < MaxCalls
    /\ fn' = [fn EXCEPT !.results = Append(@, classify_query(fn.query))]
    /\ UNCHANGED <<now, ctx, cache, last, reads, thr, br>>

\* the context store is written (update_context_from_patient) or cleared
\* (clear_context) by the rest of the program
ContextWrite ==
    /\ fn.op = "classify_query"
    /\ \/ \E p \in {1, 2} : ctx' = update_context_from_patient(Patients[p], ctx, now)
       \/ ctx' = EmptyContext
    /\ ctx' # ctx
    /\ UNCHANGED <<now, cache, last, reads, thr, br, fn>>

NextClassify == ClassifyCall \/ ContextWrite

SpecClassify == InitClassify /\ [][NextClassify]_vars

----------------------------------------------------------------------------
(* analyze_trend called directly *)

TrendNotes == {
    NoText, Text(<<"routine">>), Text(<<"worsened">>), Text(<<"flare-up", "severe">>),
    Text(<<"improved">>), Text(<<"well-controlled">>)}

TrendRecords ==
    {[visit_date |-> Date("-", 2024, 12, 20), notes |-> n, treatment |-> NoText] :
        n \in TrendNotes}
    \cup {[visit_date |-> NoDate, notes |-> Text(<<w>>), treatment |-> NoText] :
              w \in {"worsened", "improved"}}

TrendHistories == UNION {[1..k -> TrendRecords] : k \in 0..MaxVisits}

InitTrend ==
    /\ now = 0
    /\ ctx = EmptyContext
    /\ cache = EmptyCache
    /\ last = NoRequest
    /\ reads = NoReads
    /\ thr = [i \in Threads |-> IdleThread]
    /\ br = NoCall
    /\ fn \in {[op |-> "analyze_trend", history |-> h, results |-> <<>>] :
                   h \in TrendHistories}

\* one call of analyze_trend(patient_history)
TrendCall ==
    /\ fn.op = "analyze_trend"
    /\ Len(fn.results) < MaxCalls
    /\ fn' = [fn EXCEPT !.results = Append(@, analyze_trend(fn.history))]
    /\ UNCHANGED <<now, ctx, cache, last, reads, thr, br>>

SpecTrend == InitTrend /\ [][TrendCall]_vars

----------------------------------------------------------------------------
(* The clarification of an AMBIGUOUS outcome built directly, for match lists
   longer than the patient store of the model *)

MatchingLists == UNION {[1..k -> {Patients[2], Patients[3]}] : k \in 0..MaxMatching}

InitClarify ==
    /\ now = 0
    /\ ctx = EmptyContext
    /\ cache = EmptyCache
    /\ last = NoRequest
    /\ reads = NoReads
    /\ thr = [i \in Threads |-> IdleThread]
    /\ br = NoCall
    /\ fn \in {[op |-> "clarification", matching |-> m, results |-> <<>>] :
                   m \in MatchingLists}

\* the clarification block of chat() run on context["matching_patients"]
ClarificationCall ==
    /\ fn.op = "clarification"
    /\ Len(fn.results) < MaxCalls
    /\ fn' = [fn EXCEPT !.results = Append(@, Clarification(fn.matching))]
    /\ UNCHANGED <<now, ctx, cache, last, reads, thr, br>>

SpecClarify == InitClarify /\ [][ClarificationCall]_vars

----------------------------------------------------------------------------
(* get_weighted_history called directly *)

\* visits: undated and "worsened" (recency 0, clinical 3), 120 days old and
\* "well-controlled" (6, -1), 5 days old and "routine" (10, -2), 120 days old and
\* "improved" (6, 2), with an unparseable date and "worsened" (0, 3), 5 days old
\* without notes (10, 0)
WeightedRecords == {
    [visit_date |-> NoDate, notes |-> Text(<<"worsened">>), treatment |-> NoText],
    [visit_date |-> Date("/", 17, 9, 2024), notes |-> Text(<<"well-controlled">>),
     treatment |-> NoText],
    [visit_date |-> Date("-", 2025, 1, 10), notes |-> NoText,
     treatment |-> Text(<<"routine">>)],
    [visit_date |-> Date("/", 9, 17, 2024), notes |-> Text(<<"improved">>),
     treatment |-> NoText],
    [visit_date |-> Date("-", 2024, 13, 1), notes |-> Text(<<"worsened">>),
     treatment |-> NoText],
    [visit_date |-> Date("-", 10, 1, 2025), notes |-> NoText, treatment |-> NoText]}

WeightedHistories == UNION {[1..k -> WeightedRecords] : k \in 0..MaxVisits}

InitWeighted ==
    /\ now = 0
    /\ ctx = EmptyContext
    /\ cache = EmptyCache
    /\ last = NoRequest
    /\ reads = NoReads
    /\ thr = [i \in Threads |-> IdleThread]
    /\ br = NoCall
    /\ fn \in {[op |-> "get_weighted_history", history |-> h, limit |-> n,
                 results |-> <<>>] :
                   h \in WeightedHistories, n \in 0..MaxLimit}

\* one call of get_weighted_history(history_records, limit)
WeightedCall ==
    /\ fn.op = "get_weighted_history"
    /\ Len(fn.results) < MaxCalls
    /\ fn' = [fn EXCEPT !.results =
                 Append(@, get_weighted_history(fn.history, fn.limit))]
    /\ UNCHANGED <<now, ctx, cache, last, reads, thr, br>>

SpecWeighted == InitWeighted /\ [][WeightedCall]_vars

----------------------------------------------------------------------------
(* should_activate_synthetic_reasoning called directly *)

GateQueries == {
    Qy(<<lw("overall"), lw("trends"), lw("for"), Cw("sarah"), Cw("patel")>>),
    Qy(<<lw("trends"), lw("over"), lw("the"), lw("time"), lw("together")>>),
    Qy(<<lw("what"), lw("changed"), lw("for"), Cw("sarah"), Cw("patel")>>)}

\* no record, one record, two records of one date, two records of two dates,
\* two records of which one has no date
GateHistories == {
    <<>>,
    <<[visit_date |-> Date("-", 2025, 1, 10), notes |-> NoText, treatment |-> NoText]>>,
    <<[visit_date |-> Date("-", 2025, 1, 10), notes |-> NoText, treatment |-> NoText],
      [visit_date |-> Date("-", 2025, 1, 10), notes |-> Text(<<"improved">>),
       treatment |-> NoText]>>,
    <<[visit_date |-> Date("-", 2025, 1, 10), notes |-> NoText, treatment |-> NoText],
      [visit_date |-> Date("/", 17, 9, 2024), notes |-> Text(<<"improved">>),
       treatment |-> NoText]>>,
    <<[visit_date |-> Date("-", 2025, 1, 10), notes |-> NoText, treatment |-> NoText],
      [visit_date |-> NoDate, notes |-> Text(<<"improved">>), treatment |-> NoText]>>}

\* what fetch_vitals_labs_for_patient can return: the abnormal readings are
\* counted among the readings
GateVitalsLabs ==
    {NoVitalsLabs}
    \cup {x \in [vitals_count : 0..MaxReadings, labs_count : 0..MaxReadings,
                 abnormal_vitals_count : 0..MaxReadings,
                 abnormal_labs_count : 0..MaxReadings, present : {TRUE}] :
             /\ x.abnormal_vitals_count <= x.vitals_count
             /\ x.abnormal_labs_count <= x.labs_count}

InitGate ==
    /\ now = 0
    /\ ctx = EmptyContext
    /\ cache = EmptyCache
    /\ last = NoRequest
    /\ reads = NoReads
    /\ thr = [i \in Threads |-> IdleThread]
    /\ br = NoCall
    /\ fn \in {[op |-> "should_activate_synthetic_reasoning", query_type |-> ty,
                 query |-> q, history |-> h, vitals_labs |-> vl, valid |-> pv,
                 results |-> <<>>] :
                   ty \in {"COMPLEX", "SUMMARY"}, q \in GateQueries,
                   h \in GateHistories, vl \in GateVitalsLabs, pv \in BOOLEAN}

\* one call of should_activate_synthetic_reasoning
GateCall ==
    /\ fn.op = "should_activate_synthetic_reasoning"
    /\ Len(fn.results) < MaxCalls
    /\ fn' = [fn EXCEPT !.results =
                 Append(@, should_activate_synthetic_reasoning(
                               fn.query_type, fn.query, fn.history, fn.vitals_labs,
                               fn.valid))]
    /\ UNCHANGED <<now, ctx, cache, last, reads, thr, br>>

SpecGate == InitGate /\ [][GateCall]_vars

----------------------------------------------------------------------------
(* resolve_patient_reference called directly *)

\* the context store before the call: empty, or holding patient 1 or 2 since
\* time 0
ResolveContexts ==
    {EmptyContext}
    \cup {set_active_patient(Patients[p].patient_id, Patients[p].name,
                             Patients[p].gender, "FACTUAL", 0) : p \in {1, 2}}

InitResolve ==
    /\ now = 0
    /\ ctx \in ResolveContexts
    /\ cache = EmptyCache
    /\ last = NoRequest
    /\ reads = NoReads
    /\ thr = [i \in Threads |-> IdleThread]
    /\ br = NoCall
    /\ fn \in {[op |-> "resolve_patient_reference", query |-> q, results |-> <<>>] :
                   q \in Queries \ {[sp |-> 2, toks |-> <<>>]}}

\* one call of resolve_patient_reference(query, db) at time now; the record
\* keeps what was returned and the context store before and after the call
ResolveCall ==
    /\ fn.op = "resolve_patient_reference"
    /\ Len(fn.results) < MaxCalls
    /\ \E r \in {resolve_patient_reference(fn.query, ctx, now)} :
          /\ ctx' = r.ctx
          /\ fn' = [fn EXCEPT !.results =
                       Append(@, [patient |-> r.patient, method |-> r.method,
                                  before |-> ctx, after |-> r.ctx, at |-> now])]
    /\ UNCHANGED <<now, cache, last, reads, thr, br>>

NextResolve == ResolveCall \/ Tick

SpecResolve == InitResolve /\ [][NextResolve]_vars

----------------------------------------------------------------------------
(* format_trend_context called directly *)

\* the trend results given to format_trend_context: what analyze_trend returns
\* on the given histories, and results with the pattern STABLE
FormatInputs(histories) ==
    {analyze_trend(h) : h \in histories}
    \cup {[has_history |-> TRUE, visit_count |-> n, pattern |-> "STABLE",
           summary |-> TrendSummary("STABLE", 0, 0, k),
           total_worsening |-> 0, total_improving |-> 0, total_neutral |-> k,
           details |-> <<>>] : n \in 1..MaxVisits, k \in 0..MaxVisits}

InitFormat ==
    /\ now = 0
    /\ ctx = EmptyContext
    /\ cache = EmptyCache
    /\ last = NoRequest
    /\ reads = NoReads
    /\ thr = [i \in Threads |-> IdleThread]
    /\ br = NoCall
    /\ fn \in {[op |-> "format_trend_context", trend_result |-> tr, results |-> <<>>] :
                   tr \in FormatInputs(TrendHistories)}

\* one call of format_trend_context(trend_result)
FormatCall ==
    /\ fn.op = "format_trend_context"
    /\ Len(fn.results) < MaxCalls
    /\ fn' = [fn EXCEPT !.results = Append(@, format_trend_context(fn.trend_result))]
    /\ UNCHANGED <<now, ctx, cache, last, reads, thr, br>>

SpecFormat == InitFormat /\ [][FormatCall]_vars

----------------------------------------------------------------------------
(* rag/synthetic_reasoner.py: build_cross_signal_summary, called directly *)

\* the "- Vital signs:" text for abnormal_vitals of vitals_count readings; the
\* percentage (abnormal / count) * 100 is compared as abnormal * 100 against
\* the threshold times count
VitalsPattern(abnormal_vitals, vitals_count) ==
    IF abnormal_vitals * 100 < 25 * vitals_count
    THEN "predominantly within expected ranges"
    ELSE IF abnormal_vitals * 100 < 50 * vitals_count
         THEN "intermittent readings outside expected ranges"
         ELSE "frequent readings outside expected ranges"

\* the "- Laboratory tests:" text for abnormal_labs of labs_count results
LabsPattern(abnormal_labs, labs_count) ==
    IF abnormal_labs * 100 < 20 * labs_count
    THEN "results predominantly within reference ranges"
    ELSE IF abnormal_labs * 100 < 40 * labs_count
         THEN "some results outside reference ranges"
         ELSE "multiple results outside reference ranges"

\* the "- Temporal pattern:" text for trend_result["pattern"]
Stability(pattern) ==
    CASE pattern = "STABLE" ->
            "Records suggest a relatively stable pattern over the documented period."
      [] pattern = "IMPROVING" ->
            "Records suggest an improving pattern over the documented period."
      [] pattern = "WORSENING" ->
            "Records suggest changes in condition metrics over the documented period."
      [] pattern = "INTERMITTENT" ->
            "Records suggest variable patterns with fluctuations over time."
      [] OTHER -> "Pattern across records is not clearly defined."

LimitationNote ==
    "Note: This summary reflects documented data only and does not constitute clinical assessment."

\* build_cross_signal_summary(history_records, vitals_labs_info, trend_result):
\* the lines of the text, or None without history records or without vitals
\* and labs information; vitals_labs_info.encounter_ids is the number of
\* encounter ids, and trend_result is a result of analyze_trend, which is
\* never an empty dict
build_cross_signal_summary(history_records, vitals_labs_info, trend_result) ==
    IF history_records = <<>> \/ ~vitals_labs_info.present
    THEN NoneStr
    ELSE <<"Cross-Signal Pattern Summary (Observational Only):",
           <<"- Data span:", Len(history_records), "visit records,",
             vitals_labs_info.encounter_ids, "encounters documented">> >>
         \o (IF vitals_labs_info.vitals_count > 0
             THEN << <<"- Vital signs:",
                       VitalsPattern(vitals_labs_info.abnormal_vitals_count,
                                     vitals_labs_info.vitals_count)>> >>
             ELSE <<>>)
         \o (IF vitals_labs_info.labs_count > 0
             THEN << <<"- Laboratory tests:",
                       LabsPattern(vitals_labs_info.abnormal_labs_count,
                                   vitals_labs_info.labs_count)>> >>
             ELSE <<>>)
         \o << <<"- Temporal pattern:", Stability(trend_result.pattern)>> >>
         \o <<"", LimitationNote>>

\* the histories given to the summary: the shorter ones of TrendHistories
CrossSignalHistories == {h \in TrendHistories : Len(h) < MaxVisits}

\* the vitals and labs information given to the summary: None, or the dict of
\* fetch_vitals_labs_for_patient, whose counts are all 0 without encounters
CrossSignalVitalsLabs ==
    {[vitals_count |-> y[1].vitals_count, labs_count |-> y[1].labs_count,
      abnormal_vitals_count |-> y[1].abnormal_vitals_count,
      abnormal_labs_count |-> y[1].abnormal_labs_count, present |-> y[1].present,
      encounter_ids |-> y[2]] :
        y \in {z \in GateVitalsLabs \X (0..MaxReadings) :
                  /\ ~z[1].present => z[2] = 0
                  /\ z[2] = 0 => z[1].vitals_count = 0 /\ z[1].labs_count = 0}}

InitCrossSignal ==
    /\ now = 0
    /\ ctx = EmptyContext
    /\ cache = EmptyCache
    /\ last = NoRequest
    /\ reads = NoReads
    /\ thr = [i \in Threads |-> IdleThread]
    /\ br = NoCall
    /\ fn \in {[op |-> "build_cross_signal_summary", history_records |-> h,
                vitals_labs_info |-> v, results |-> <<>>] :
                   h \in CrossSignalHistories, v \in CrossSignalVitalsLabs}

\* one call of build_cross_signal_summary on the history, the vitals and labs
\* information and the trend analyze_trend finds in the history; the record
\* keeps the pattern of the trend and the summary returned
CrossSignalCall ==
    /\ fn.op = "build_cross_signal_summary"
    /\ Len(fn.results) < MaxCalls
    /\ \E t \in {analyze_trend(fn.history_records)} :
          fn' = [fn EXCEPT !.results =
                    Append(@, [pattern |-> t.pattern,
                               summary |-> build_cross_signal_summary(
                                               fn.history_records,
                                               fn.vitals_labs_info, t)])]
    /\ UNCHANGED <<now, ctx, cache, last, reads, thr, br>>

SpecCrossSignal == InitCrossSignal /\ [][CrossSignalCall]_vars

----------------------------------------------------------------------------
(* Properties of the chat endpoint, requests served one at a time (Spec) *)

\* C1: for every request that returns a response, the confidence is Low exactly
\* when the request ended in a refusal or ambiguity outcome, High exactly when
\* the answer is a FACTUAL field read or a SUMMARY cache hit, and Medium on
\* every other answered path (cache-miss SUMMARY, COMPLEX, SEVERITY_ASSESSMENT).
C1_ConfidenceByOutcome ==
    (last.seen /\ ~last.raised) =>
        /\ last.resp.confidence \in {"Low", "Medium", "High"}
        /\ (last.resp.confidence = "Low") <=>
              (last.path \in {"EMPTY_QUERY", "GENDER_MISMATCH", "NO_CONTEXT", "AMBIGUOUS",
                              "NOT_FOUND", "MISSING_FIELDS", "SEVERITY_NO_DATA",
                              "EMPTY_PROMPT", "GENERATION_FAILED", "GENERATION_EMPTY"})
        /\ (last.resp.confidence = "High") <=>
              (last.path = "FACTUAL" \/ (last.path = "SUMMARY" /\ last.cache_hit))
        /\ (last.path \in {"COMPLEX", "SEVERITY"}
               \/ (last.path = "SUMMARY" /\ ~last.cache_hit))
              => last.resp.confidence = "Medium"

\* a SUMMARY request answered from the cache, with confidence High
C1_Witness ==
    /\ last.seen
    /\ last.path = "SUMMARY"
    /\ last.cache_hit
    /\ last.resp.confidence = "High"

\* C2: a pronoun request arriving while the context store holds an unexpired
\* active patient P of recorded gender G resolves to P only if the pronoun's
\* gender class matches G or G is unrecorded; otherwise it ends in a
\* GENDER_MISMATCH refusal; no patient other than P is selected, whatever name
\* or id the query also contains.
C2_PronounGender ==
    [][(/\ last'.seen
        /\ Truthy(OfQuery[last'.query].contains_pronoun)
        /\ has_active_patient(ctx, now))
       => LET P == get_active_patient_id(ctx, now)
              G == get_active_patient_gender(ctx, now)
              pg == OfQuery[last'.query].contains_pronoun
              matches == \/ G = NoneStr
                         \/ (pg = "male" /\ G = "Male")
                         \/ (pg = "female" /\ G = "Female")
          IN /\ last'.patient \in {P, NoId}
             /\ (last'.patient = P) => matches
             /\ ~matches => (/\ last'.path = "GENDER_MISMATCH"
                             /\ last'.method = "GENDER_MISMATCH"
                             /\ last'.patient = NoId
                             /\ last'.resp.confidence = "Low")]_vars

\* "tell me about her and Mary Johnson" while John Smith (Male) is active: refused
\* as GENDER_MISMATCH although the query names another patient
C2_Witness ==
    /\ last.seen
    /\ last.path = "GENDER_MISMATCH"
    /\ OfQuery[last.query].find_patients_by_name # <<>>
    /\ has_active_patient(ctx, now)
    /\ ctx.gender = "Male"

\* C3: every failure of the generator during a request (an exception or an
\* empty output, on the cache-miss SUMMARY path or the COMPLEX path) is caught
\* and turned into a refusal with confidence Low; none leaves chat() as an
\* exception.
C3_GeneratorFailureRefused ==
    (last.seen /\ \E i \in 1..Len(last.gen) : last.gen[i] \in {"raised", "empty"}) =>
        /\ ~last.raised
        /\ last.rtype = "REFUSAL"
        /\ last.resp.confidence = "Low"

\* C4: within one request the generator is invoked at most once, and when that
\* invocation fails or returns empty output the request ends in a REFUSAL.
C4_SingleGeneration ==
    last.seen =>
        /\ Len(last.gen) <= 1
        /\ (last.gen \in {<<"raised">>, <<"empty">>}) =>
              (~last.raised /\ last.rtype = "REFUSAL")

\* C5: the generator is never invoked on a request answered as FACTUAL, as
\* SEVERITY_ASSESSMENT or as a SUMMARY cache hit, nor on one refused at
\* validation or patient resolution; it is invoked only on the cache-miss
\* SUMMARY path and the COMPLEX path.
C5_GenerationOnlyWhereAllowed ==
    last.seen =>
        /\ (last.path \in {"FACTUAL", "SEVERITY", "SEVERITY_NO_DATA", "EMPTY_QUERY",
                           "GENDER_MISMATCH", "NO_CONTEXT", "AMBIGUOUS", "NOT_FOUND"}
               \/ (last.path = "SUMMARY" /\ last.cache_hit))
              => last.gen = <<>>
        /\ (last.gen # <<>>) =>
              (last.qtype = "COMPLEX" \/ (last.qtype = "SUMMARY" /\ ~last.cache_hit))

\* a severity question about a patient whose summary is cached, answered by the
\* fixed rule without the generator
C5_Witness ==
    /\ last.seen
    /\ last.path = "SEVERITY"
    /\ last.gen = <<>>
    /\ Truthy(cache[last.patient])

\* C7: a pronoun query arriving while the context store has no unexpired active
\* patient (never set, cleared, or written more than 1800 seconds ago) yields
\* NO_CONTEXT: a refusal with confidence Low and the no-prior-context evidence,
\* whatever name or id the query also contains.
C7_PronounWithoutContext ==
    [][(/\ last'.seen
        /\ Truthy(OfQuery[last'.query].contains_pronoun)
        /\ ~has_active_patient(ctx, now))
       => /\ last'.method = "NO_CONTEXT"
          /\ last'.path = "NO_CONTEXT"
          /\ last'.rtype = "REFUSAL"
          /\ last'.patient = NoId
          /\ last'.resp.confidence = "Low"
          /\ last'.resp.evidence = <<"no prior patient context">>
          /\ ctx' = ctx]_vars

\* "tell me about her and Mary Johnson" more than 1800 seconds after the last
\* write: refused as NO_CONTEXT although the query names a patient
C7_Witness ==
    /\ last.seen
    /\ last.path = "NO_CONTEXT"
    /\ OfQuery[last.query].find_patients_by_name # <<>>
    /\ ctx.ts # NoTime
    /\ now - ctx.ts > 1800

\* C9: after every request that resolves a patient P by PRONOUN, POSSESSIVE or
\* explicit id/name (FOUND), the context store holds P's id, name and gender
\* and its update time is the time of the request.
C9_ResolutionRefreshesContext ==
    (last.seen /\ last.method \in {"PRONOUN", "POSSESSIVE", "FOUND"}
        /\ last.patient # NoId) =>
        /\ ctx.id = last.patient
        /\ ctx.name = Patients[last.patient].name
        /\ ctx.gender = Patients[last.patient].gender
        /\ ctx.ts = now

----------------------------------------------------------------------------
(* Properties of the context store's reads (Spec) *)

\* C8 as stated: with the last write at time t and no later write, every read
\* of the store made later than t + 1800 returns empty, and every read made at
\* or before t + 1800 returns the written values.
C8_AllReadsExpire ==
    (reads.seen /\ ctx.ts # NoTime) =>
        IF now > ctx.ts + 1800
        THEN /\ reads.id = NoId /\ reads.name = <<>> /\ reads.gender = NoneStr
             /\ reads.qtype = NoneStr /\ ~reads.has_active
             /\ reads.timestamp = NoTime
             /\ reads.summary.patient_id = NoId
             /\ reads.summary.timestamp = NoTime
        ELSE /\ reads.id = ctx.id /\ reads.name = ctx.name
             /\ reads.gender = ctx.gender /\ reads.qtype = ctx.qtype
             /\ reads.has_active
             /\ reads.timestamp = ctx.ts
             /\ reads.summary.patient_id = ctx.id
             /\ reads.summary.timestamp = ctx.ts

\* C8 amended: get_active_patient_id/name/gender, get_last_query_type and
\* has_active_patient return empty later than t + 1800 and the written values
\* at or before it; get_timestamp and get_memory_summary return the stored
\* values at any time, the summary with its expired flag set accordingly.
C8_ExpiringReads ==
    (reads.seen /\ ctx.ts # NoTime) =>
        /\ reads.timestamp = ctx.ts
        /\ reads.summary = [patient_id |-> ctx.id, patient_name |-> ctx.name,
                            patient_gender |-> ctx.gender, query_type |-> ctx.qtype,
                            timestamp |-> ctx.ts, expired |-> (now > ctx.ts + 1800)]
        /\ IF now > ctx.ts + 1800
           THEN /\ reads.id = NoId /\ reads.name = <<>> /\ reads.gender = NoneStr
                /\ reads.qtype = NoneStr /\ ~reads.has_active
           ELSE /\ reads.id = ctx.id /\ reads.name = ctx.name
                /\ reads.gender = ctx.gender /\ reads.qtype = ctx.qtype
                /\ reads.has_active

\* the reads made 1801 seconds after the write: the getters are empty, the
\* timestamp is still the time of the write
C8_Witness ==
    /\ reads.seen
    /\ ctx.ts # NoTime
    /\ now = ctx.ts + 1801
    /\ reads.id = NoId
    /\ reads.timestamp = ctx.ts
    /\ reads.summary.expired

----------------------------------------------------------------------------
(* Properties of build_response (SpecBuild) *)

\* C6: build_response takes the confidence from the response type alone, by the
\* table FACTUAL->High, SUMMARY_HIT->High, SUMMARY_MISS->Medium, COMPLEX->Medium,
\* SEVERITY_ASSESSMENT->Medium, REFUSAL->Low; two calls with the same type return
\* the same confidence; answer and evidence are returned unchanged.
C6_ConfidenceTable ==
    br.called =>
        /\ br.response_type \in {"FACTUAL", "SUMMARY_HIT"} => br.result.confidence = "High"
        /\ br.response_type \in {"SUMMARY_MISS", "COMPLEX", "SEVERITY_ASSESSMENT"}
              => br.result.confidence = "Medium"
        /\ br.response_type = "REFUSAL" => br.result.confidence = "Low"
        /\ br.prev_type = br.response_type => br.prev_confidence = br.result.confidence
        /\ br.result.answer = br.answer
        /\ br.result.evidence = br.evidence

\* two calls in a row with type COMPLEX, the second with an answer, evidence
\* and a timing
C6_Witness ==
    /\ br.called
    /\ br.prev_type = "COMPLEX"
    /\ br.response_type = "COMPLEX"
    /\ br.answer # <<>>
    /\ br.evidence # <<>>
    /\ br.timing_ms = 12

----------------------------------------------------------------------------
(* Properties of concurrent requests (SpecConc) *)

\* C10: once has_active_patient() has returned true for a pronoun resolution,
\* the patient id the resolution then reads is non-empty and is the id that was
\* active at the check, under every interleaving with other requests' writes,
\* clears and expiry.
C10_CheckThenReadAtomic ==
    \A i \in Threads :
        (thr[i].pc = "done" /\ thr[i].active) =>
            /\ thr[i].read_id # NoId
            /\ thr[i].read_id = thr[i].checked_id

----------------------------------------------------------------------------
(* Properties of classify_query (SpecClassify) *)

\* C11: for every query that matches at least one static-attribute pattern and
\* contains no temporal/change keyword, every call of classify_query returns
\* FACTUAL with the field of the first matching pattern of the table, and the
\* calls on the same text agree whatever was called before and whatever the
\* context store holds.
C11_StaticFactual ==
    (/\ fn.op = "classify_query"
     /\ \E i \in 1..Len(StaticPatternFields) : StaticPatternMatches(fn.query, i)
     /\ ~HasTemporal(fn.query)) =>
        \A c \in 1..Len(fn.results) :
            /\ fn.results[c].type = "FACTUAL"
            /\ \E i \in 1..Len(StaticPatternFields) :
                   /\ StaticPatternMatches(fn.query, i)
                   /\ \A j \in 1..(i - 1) : ~StaticPatternMatches(fn.query, j)
                   /\ fn.results[c].field = StaticPatternFields[i]
            /\ fn.results[c] = fn.results[1]

\* a text matching patterns of two different fields and a severity pattern has
\* been classified twice, the context store written in between
C11_Witness ==
    /\ fn.op = "classify_query"
    /\ ~HasTemporal(fn.query)
    /\ StaticPatternMatches(fn.query, 9) /\ StaticPatternMatches(fn.query, 11)
    /\ SeverityPattern(fn.query)
    /\ Len(fn.results) >= 2
    /\ fn.results[2] = [type |-> "FACTUAL", field |-> "risk_level"]
    /\ ctx # EmptyContext

\* C12 (as stated): every non-empty query that contains a temporal/change
\* keyword is classified COMPLEX with no field.
C12_TemporalAlwaysComplex ==
    (fn.op = "classify_query" /\ ~IsBlank(fn.query) /\ HasTemporal(fn.query)) =>
        \A c \in 1..Len(fn.results) :
            fn.results[c] = [type |-> "COMPLEX", field |-> NoneStr]

\* C12 (amended): every non-empty query that contains a temporal/change keyword
\* is classified with no field, as SEVERITY_ASSESSMENT when the severity rule
\* accepts it and as COMPLEX otherwise; a static-attribute pattern in such a
\* query never makes it FACTUAL.
C12_TemporalComplexUnlessSeverity ==
    (fn.op = "classify_query" /\ ~IsBlank(fn.query) /\ HasTemporal(fn.query)) =>
        \A c \in 1..Len(fn.results) :
            /\ fn.results[c].field = NoneStr
            /\ fn.results[c].type =
                  IF _is_severity_assessment(fn.query) THEN "SEVERITY_ASSESSMENT"
                  ELSE "COMPLEX"

\* a text with a temporal keyword and a static-attribute pattern has been
\* classified COMPLEX
C12_Witness ==
    /\ fn.op = "classify_query"
    /\ HasTemporal(fn.query)
    /\ StaticPatternField(fn.query) = "gender"
    /\ fn.results # <<>>
    /\ fn.results[1].type = "COMPLEX"

\* C20: for every query in which an explicit-factual pattern matches,
\* classify_query never returns SEVERITY_ASSESSMENT, even when a structural
\* severity pattern or the question-starter heuristic also matches.
C20_NegationWins ==
    (fn.op = "classify_query" /\ ExplicitFactual(fn.query)) =>
        \A c \in 1..Len(fn.results) : fn.results[c].type # "SEVERITY_ASSESSMENT"

\* a text with an explicit-factual pattern, a structural severity pattern and
\* no static-attribute pattern has been classified
C20_Witness ==
    /\ fn.op = "classify_query"
    /\ ExplicitFactual(fn.query)
    /\ SeverityPattern(fn.query)
    /\ StaticPatternField(fn.query) = NoneStr
    /\ fn.results # <<>>
    /\ fn.results[1].type = "FACTUAL"

----------------------------------------------------------------------------
(* Properties of analyze_trend (SpecTrend) *)

\* C19: for a non-empty history with W and I the worsening and improving
\* keyword counts summed over all records, analyze_trend returns NO_CLEAR_TREND
\* when W = 0 and I = 0, else WORSENING_TREND when W > 2I, else IMPROVING_TREND
\* when I > 2W, else INTERMITTENT when W > 0 and I > 0, else STABLE; for an
\* empty history it returns INSUFFICIENT_DATA; W = 3, I = 1 gives
\* WORSENING_TREND and W = 2, I = 1 gives INTERMITTENT.
C19_TrendThresholds ==
    fn.op = "analyze_trend" =>
        \A c \in 1..Len(fn.results) :
            LET r == fn.results[c]
                W == SumOf([i \in 1..Len(fn.history) |->
                         CountIn(fn.history[i].notes, WORSENING_KEYWORDS)])
                I == SumOf([i \in 1..Len(fn.history) |->
                         CountIn(fn.history[i].notes, IMPROVEMENT_KEYWORDS)])
            IN IF fn.history = <<>> THEN r.pattern = "INSUFFICIENT_DATA"
               ELSE /\ r.total_worsening = W
                    /\ r.total_improving = I
                    /\ r.pattern =
                         CASE W = 0 /\ I = 0 -> "NO_CLEAR_TREND"
                           [] W > 2 * I -> "WORSENING_TREND"
                           [] W <= 2 * I /\ (W # 0 \/ I # 0) /\ I > 2 * W ->
                                "IMPROVING_TREND"
                           [] W <= 2 * I /\ I <= 2 * W /\ W > 0 /\ I > 0 ->
                                "INTERMITTENT"
                           [] OTHER -> "STABLE"
                    /\ (W = 3 /\ I = 1) => r.pattern = "WORSENING_TREND"
                    /\ (W = 2 /\ I = 1) => r.pattern = "INTERMITTENT"

\* a history with two worsening indicators and one improving indicator has
\* been analysed as INTERMITTENT
C19_Witness ==
    /\ fn.op = "analyze_trend"
    /\ fn.results # <<>>
    /\ fn.results[1].total_worsening = 2
    /\ fn.results[1].total_improving = 1
    /\ fn.results[1].pattern = "INTERMITTENT"

----------------------------------------------------------------------------
(* Properties of the refusals (SpecClarify, Spec) *)

\* C17: for an ambiguity refusal with k candidate patients the clarification
\* lists exactly min(k, 5) candidates, name and age each, and has an
\* "and N more" line if and only if k > 5, with N = k - 5.
C17_ClarificationListing ==
    fn.op = "clarification" =>
        \A c \in 1..Len(fn.results) :
            LET k == Len(fn.matching)
                text == fn.results[c]
            IN /\ text[2] = k
               /\ Len(text[3]) = Min(k, 5)
               /\ \A i \in 1..Len(text[3]) :
                      text[3][i] = <<fn.matching[i].name, fn.matching[i].age>>
               /\ (text[4] # <<>>) <=> (k > 5)
               /\ (k > 5) => text[4] = <<k - 5>>

\* a clarification for seven candidates has been built: five are listed, with
\* "and 2 more"
C17_Witness ==
    /\ fn.op = "clarification"
    /\ Len(fn.matching) = 7
    /\ fn.results # <<>>
    /\ Len(fn.results[1][3]) = 5
    /\ fn.results[1][4] = <<2>>

\* C18: every refusal returned by the chat endpoint carries as evidence exactly
\* what get_refusal_evidence gives for the reason of its outcome
\* (PATIENT_NOT_FOUND, AMBIGUOUS, GENDER_MISMATCH, NO_CONTEXT, and
\* INSUFFICIENT_DATA for the others), and never an evidence string outside
\* that fixed set.
C18_RefusalEvidence ==
    (last.seen /\ ~last.raised /\ last.rtype = "REFUSAL") =>
        LET reason == CASE last.path = "GENDER_MISMATCH" -> "GENDER_MISMATCH"
                        [] last.path = "NO_CONTEXT" -> "NO_CONTEXT"
                        [] last.path = "AMBIGUOUS" -> "AMBIGUOUS"
                        [] last.path = "NOT_FOUND" -> "PATIENT_NOT_FOUND"
                        [] OTHER -> "INSUFFICIENT_DATA"
        IN /\ last.resp.evidence = get_refusal_evidence(reason)
           /\ last.resp.evidence \in
                 {get_refusal_evidence(r) :
                    r \in {"PATIENT_NOT_FOUND", "AMBIGUOUS", "GENDER_MISMATCH",
                            "NO_CONTEXT", "INSUFFICIENT_DATA"}}

----------------------------------------------------------------------------
(* Properties of get_weighted_history (SpecWeighted) *)

\* C13: for every list of history records and every limit N >= 0,
\* get_weighted_history returns exactly min(N, number of records) records, each
\* with a total score 0.4 recency + 0.6 clinical greater than or equal to that
\* of every record not returned, and among records of equal total score the
\* ones earlier in the input are the ones returned.
C13_TopNByScore ==
    fn.op = "get_weighted_history" =>
        \A c \in 1..Len(fn.results) :
            LET h == fn.history
                recs == fn.results[c].records
                Total(r) == 4 * _calculate_recency_score(r.visit_date)
                            + 6 * _calculate_clinical_signal_score(r.notes, r.treatment)
            IN /\ Len(recs) = Min(fn.limit, Len(h))
               /\ \E sel \in SUBSET (1..Len(h)) :
                      /\ \A x \in Range(h) \cup Range(recs) :
                             Cardinality({p \in 1..Len(recs) : recs[p] = x})
                                = Cardinality({i \in sel : h[i] = x})
                      /\ \A i \in sel : \A j \in (1..Len(h)) \ sel :
                             /\ Total(h[i]) >= Total(h[j])
                             /\ Total(h[i]) = Total(h[j]) => i < j

\* C14: the records returned by get_weighted_history are in non-decreasing
\* order of parsed visit date, records whose date cannot be parsed first,
\* whatever their score ranking was, and the scoring details have the length
\* and the order of the returned records.
C14_ChronologicalOrder ==
    fn.op = "get_weighted_history" =>
        \A c \in 1..Len(fn.results) :
            LET recs == fn.results[c].records
                details == fn.results[c].details
            IN /\ \A i \in 1..Len(recs) : \A j \in 1..Len(recs) :
                      i < j => _parse_date(recs[i].visit_date)
                                  <= _parse_date(recs[j].visit_date)
               /\ \A i \in 1..Len(recs) : \A j \in 1..Len(recs) :
                      (_parse_date(recs[i].visit_date) = DateMin
                       /\ _parse_date(recs[j].visit_date) # DateMin) => i < j
               /\ Len(details) = Len(recs)
               /\ \A i \in 1..Len(recs) :
                      /\ details[i].visit_date = recs[i].visit_date
                      /\ details[i].recency_score =
                            _calculate_recency_score(recs[i].visit_date)
                      /\ details[i].clinical_score =
                            _calculate_clinical_signal_score(recs[i].notes,
                                                             recs[i].treatment)

\* three records have been returned whose date order is the reverse of their
\* score order, the first with a date that cannot be parsed
C14_Witness ==
    /\ fn.op = "get_weighted_history"
    /\ fn.results # <<>>
    /\ Len(fn.results[1].records) = 3
    /\ fn.results[1].records[1].visit_date = Date("-", 2024, 13, 1)
    /\ fn.results[1].details[1].total_score < fn.results[1].details[2].total_score
    /\ fn.results[1].details[2].total_score < fn.results[1].details[3].total_score
    /\ fn.history[1] = fn.results[1].records[3]

----------------------------------------------------------------------------
(* Properties of the synthesis gate (SpecGate, Spec) *)

\* C15: should_activate_synthetic_reasoning returns true if and only if the
\* query type is COMPLEX, the patient identity is valid, a synthesis-signal
\* pattern is in the query, at least two of history, vitals and labs have a
\* record, the history has two records or more with distinct dates, and the
\* vitals and labs hold an abnormal and a normal reading; so an input with any
\* one condition false gives false.
C15_GateIffSixConditions ==
    fn.op = "should_activate_synthetic_reasoning" =>
        \A c \in 1..Len(fn.results) :
            LET vl == fn.vitals_labs
                h == fn.history
                is_complex == fn.query_type = "COMPLEX"
                has_signal == \E i \in 1..8 : SynthesisPatternMatches(fn.query, i)
                two_sources == Cardinality(
                    {src \in {"history", "vitals", "labs"} :
                        \/ src = "history" /\ Len(h) >= 1
                        \/ src = "vitals" /\ vl.vitals_count >= 1
                        \/ src = "labs" /\ vl.labs_count >= 1}) >= 2
                two_dates == \E i \in 1..Len(h) : \E j \in 1..Len(h) :
                    /\ h[i].visit_date # NoDate /\ h[j].visit_date # NoDate
                    /\ h[i].visit_date # h[j].visit_date
                mixed == /\ vl.abnormal_vitals_count + vl.abnormal_labs_count >= 1
                         /\ (vl.vitals_count + vl.labs_count)
                              - (vl.abnormal_vitals_count + vl.abnormal_labs_count) >= 1
            IN fn.results[c].activate <=>
                  (is_complex /\ fn.valid /\ has_signal /\ two_sources /\ two_dates
                   /\ mixed)

\* the gate has activated on an input: two dated visits, an abnormal vital
\* reading and a normal lab result
C15_Witness ==
    /\ fn.op = "should_activate_synthetic_reasoning"
    /\ fn.results # <<>>
    /\ fn.results[1].activate
    /\ fn.vitals_labs.vitals_count = 1 /\ fn.vitals_labs.abnormal_vitals_count = 1
    /\ fn.vitals_labs.labs_count = 1 /\ fn.vitals_labs.abnormal_labs_count = 0

\* the data sources an evidence list names, as the stress test counts them:
\* an item names history, vitals or labs when it holds that word
EvidenceSources(evidence) ==
    {src \in {"history", "vitals", "labs"} :
        \E i \in 1..Len(evidence) :
            \/ /\ src = "history"
               /\ evidence[i] \in {"patient_history (weighted: recency + clinical signals)",
                                   "patient_history"}
            \/ /\ src = "vitals" /\ evidence[i] \in {"vitals", "patient_vitals"}
            \/ /\ src = "labs" /\ evidence[i] \in {"labs", "patient_labs"}}

\* the first line of the text build_cross_signal_summary returns
CrossSignalSummaryTitle == "Cross-Signal Pattern Summary (Observational Only):"

\* C16: a request classified COMPLEX for an unambiguous patient, for which all
\* the conditions of the synthesis gate hold, gets the cross-signal summary
\* appended to the prompt given to the generator, and its answer's evidence
\* names two data sources or more (the visit history and vitals or labs) with
\* a confidence of Medium at most.
C16_SynthesisOnComplex ==
    (/\ last.seen
     /\ last.qtype = "COMPLEX"
     /\ last.patient # NoId
     /\ last.rtype = "COMPLEX"
     /\ should_activate_synthetic_reasoning(
            last.qtype, last.query,
            get_weighted_history(PatientHistory[last.patient], 5).records,
            fetch_vitals_labs_for_patient(last.patient), TRUE).activate)
    => /\ CrossSignalSummaryTitle \in Range(last.prompt)
       /\ "history" \in EvidenceSources(last.resp.evidence)
       /\ Cardinality(EvidenceSources(last.resp.evidence)) >= 2
       /\ last.resp.confidence \in {"Medium", "Low"}

----------------------------------------------------------------------------
(* Properties of classify_query, continued (SpecClassify) *)

\* C21: for a query on which none of the static-attribute, severity, temporal
\* and summary rules fires, classify_query returns FACTUAL with field f if and
\* only if the keywords of the simple map found in the query imply exactly the
\* one field f; when they imply two fields or more, or none, the result is
\* COMPLEX with no field.
C21_SimpleFactualSingleField ==
    fn.op = "classify_query" =>
        \A c \in 1..Len(fn.results) :
            LET q == fn.query
                r == fn.results[c]
                fields == {f \in {"primary_condition", "age", "gender"} :
                              \E x \in FACTUAL_MAPPINGS : x[2] = f /\ KwIn(q, <<x[1]>>)}
                no_rule_fires ==
                    /\ ~Truthy(_check_static_attribute(q))
                    /\ ~_is_severity_assessment(q)
                    /\ ~_is_temporal_complex_query(q)
                    /\ ~_is_summary_query(q)
            IN no_rule_fires =>
                  /\ \A f \in {"primary_condition", "age", "gender"} :
                        (r.type = "FACTUAL" /\ r.field = f) <=> fields = {f}
                  /\ Cardinality(fields) # 1 =>
                        r = [type |-> "COMPLEX", field |-> NoneStr]

\* classify_query has answered COMPLEX on a query whose keywords imply two
\* fields of the simple map, none of the earlier rules firing
C21_Witness ==
    /\ fn.op = "classify_query"
    /\ fn.results # <<>>
    /\ ~Truthy(_check_static_attribute(fn.query))
    /\ ~_is_severity_assessment(fn.query)
    /\ ~_is_temporal_complex_query(fn.query)
    /\ ~_is_summary_query(fn.query)
    /\ KwIn(fn.query, <<"disease">>) /\ KwIn(fn.query, <<"age">>)
    /\ fn.results[1] = [type |-> "COMPLEX", field |-> NoneStr]

----------------------------------------------------------------------------
(* Properties of the chat endpoint, continued (Spec) *)

\* C22: in the COMPLEX section the prompt given to the generator holds the
\* trend-analysis text and, whenever the weighted retrieval selected a record,
\* the selected history records, however the patient was identified and
\* whichever retrieval intent was detected for the query.
C22_ComplexPromptGrounded ==
    (last.seen /\ last.prompt # <<>>) =>
        /\ "trend_context" \in Range(last.prompt)
        /\ fetch_weighted_history(last.patient, 5) > 0 =>
              "Patient History" \in Range(last.prompt)

\* C23: whenever a request ends in an AMBIGUOUS refusal, on a possessive name
\* or on an explicit name, the clarification carries the patients whose match
\* caused the ambiguity: the reported match count is 2 or more and two
\* patients or more are listed.
C23_AmbiguousCarriesCandidates ==
    (last.seen /\ last.path = "AMBIGUOUS") =>
        /\ last.resp.answer[2] >= 2
        /\ Len(last.resp.answer[3]) >= 2

----------------------------------------------------------------------------
(* Properties of resolve_patient_reference (SpecResolve) *)

\* C24: for a query with a possessive form and no gendered pronoun,
\* resolve_patient_reference returns NONE when the name search gives no
\* patient, POSSESSIVE with the patient when it gives exactly one, writing the
\* patient's id, name and gender into the context store, and AMBIGUOUS with no
\* patient when it gives more than one; the context store is written in the
\* one-patient case only.
C24_PossessiveResolution ==
    fn.op = "resolve_patient_reference" =>
        \A c \in 1..Len(fn.results) :
            LET q == fn.query
                r == fn.results[c]
                name == extract_possessive_name(q)
                found == resolver_find_patients_by_name(name)
            IN (~Truthy(contains_pronoun(q)) /\ Truthy(name)) =>
                  /\ Len(found) = 0 =>
                        r.method = "NONE" /\ r.patient = NoPatient /\ r.after = r.before
                  /\ Len(found) = 1 =>
                        /\ r.method = "POSSESSIVE" /\ r.patient = found[1]
                        /\ r.after.id = found[1].patient_id
                        /\ r.after.name = found[1].name
                        /\ r.after.gender = found[1].gender
                  /\ Len(found) > 1 =>
                        r.method = "AMBIGUOUS" /\ r.patient = NoPatient
                        /\ r.after = r.before

\* a possessive name that one patient matches has been resolved while the
\* context store held another patient
C24_Witness ==
    /\ fn.op = "resolve_patient_reference"
    /\ fn.results # <<>>
    /\ fn.results[1].method = "POSSESSIVE"
    /\ fn.results[1].before.id = 2
    /\ fn.results[1].after.id = 1
    /\ ctx.id = 1

----------------------------------------------------------------------------
(* Properties of the trend texts (SpecFormat, SpecTrend) *)

\* C25: format_trend_context appends the note that no consistent worsening
\* pattern is documented if and only if the pattern is STABLE, INTERMITTENT or
\* NO_CLEAR_TREND; it never appends it for WORSENING_TREND or IMPROVING_TREND,
\* and for a result without history it returns the no-history line alone.
C25_NoWorseningNote ==
    fn.op = "format_trend_context" =>
        \A c \in 1..Len(fn.results) :
            LET tr == fn.trend_result
                text == fn.results[c]
                noted == \E i \in 1..Len(text) : text[i] = NoWorseningNote
            IN /\ tr.has_history =>
                    (noted <=> tr.pattern \in {"STABLE", "INTERMITTENT", "NO_CLEAR_TREND"})
               /\ tr.pattern \in {"WORSENING_TREND", "IMPROVING_TREND"} => ~noted
               /\ ~tr.has_history =>
                    text = <<"Trend Analysis: No visit history available.">>

\* a STABLE result has been formatted, and the note is the last line
C25_Witness ==
    /\ fn.op = "format_trend_context"
    /\ fn.results # <<>>
    /\ fn.trend_result.pattern = "STABLE"
    /\ fn.results[1][Len(fn.results[1])] = NoWorseningNote

\* C27: the overall pattern STABLE is unreachable in analyze_trend: whatever
\* the totals of worsening and improving indicators, one of the four earlier
\* branches (NO_CLEAR_TREND, WORSENING_TREND, IMPROVING_TREND, INTERMITTENT)
\* fires, so no history that is not empty gives STABLE.
C27_StableUnreachable ==
    fn.op = "analyze_trend" =>
        \A c \in 1..Len(fn.results) :
            /\ fn.results[c].pattern # "STABLE"
            /\ fn.history # <<>> =>
                  fn.results[c].pattern \in {"NO_CLEAR_TREND", "WORSENING_TREND",
                                             "IMPROVING_TREND", "INTERMITTENT"}

\* a history whose notes hold routine indicators only, and one with as many
\* worsening as improving indicators, would be the stable ones: the first has
\* been analyzed as NO_CLEAR_TREND
C27_Witness ==
    /\ fn.op = "analyze_trend"
    /\ fn.results # <<>>
    /\ fn.results[1].total_worsening = 0
    /\ fn.results[1].total_improving = 0
    /\ fn.results[1].total_neutral > 0
    /\ fn.results[1].pattern = "NO_CLEAR_TREND"

----------------------------------------------------------------------------
(* Properties of the chat endpoint: refusals and the cache (Spec) *)

\* C26: a request refused at the patient-resolution stage (GENDER_MISMATCH,
\* NO_CONTEXT, AMBIGUOUS or NOT_FOUND) leaves the context store as it was
\* before the request: active patient id, name, gender, last query type and
\* update time are unchanged.
C26_RefusalLeavesContext ==
    [][(last'.seen /\ last'.path \in {"GENDER_MISMATCH", "NO_CONTEXT", "AMBIGUOUS",
                                      "NOT_FOUND"})
         => (/\ ctx'.id = ctx.id /\ ctx'.name = ctx.name /\ ctx'.gender = ctx.gender
             /\ ctx'.qtype = ctx.qtype /\ ctx'.ts = ctx.ts)]_vars

\* an explicit name that two patients match has been refused while the store
\* held a patient
C26_Witness ==
    /\ last.seen
    /\ last.path = "AMBIGUOUS"
    /\ OfQuery[last.query].find_patients_by_name # <<>>
    /\ ctx.id = 1
    /\ ctx.ts # NoTime

----------------------------------------------------------------------------
(* Properties of the synthesis gate, continued (SpecGate) *)

\* C28: in should_activate_synthetic_reasoning the multi-source condition is
\* implied by the temporal-variation and mixed-signals conditions: on no input
\* is it the only condition that fails, so whenever the gate gives
\* insufficient data sources as its reason, temporal variation or mixed
\* signals fails as well.
C28_MultiSourceImplied ==
    fn.op = "should_activate_synthetic_reasoning" =>
        /\ (_has_temporal_variation(fn.history) /\ _has_mixed_signals(fn.vitals_labs))
              => _count_data_sources(Len(fn.history), fn.vitals_labs.vitals_count,
                                     fn.vitals_labs.labs_count) >= 2
        /\ \A c \in 1..Len(fn.results) :
              fn.results[c].reason = "Insufficient data sources" =>
                  \/ ~_has_temporal_variation(fn.history)
                  \/ ~_has_mixed_signals(fn.vitals_labs)

\* the gate has given insufficient data sources as its reason on an input
\* whose vitals hold an abnormal and a normal reading: the history is empty
C28_Witness ==
    /\ fn.op = "should_activate_synthetic_reasoning"
    /\ fn.results # <<>>
    /\ fn.results[1].reason = "Insufficient data sources"
    /\ _has_mixed_signals(fn.vitals_labs)
    /\ fn.history = <<>>

\* C29: over any sequence of requests, the summary cache gets an entry for
\* patient P exactly in a SUMMARY request that generated a summary for P which
\* is not empty (an empty or whitespace-only output is never stored, an entry
\* is never changed or removed); once the entry exists, every later SUMMARY
\* request for P is a cache hit that returns the stored text with confidence
\* High and calls the generator not at all.
C29_SummaryCache ==
    [][/\ \A p \in PatientIds :
            cache'[p] # cache[p] =>
                /\ cache[p] = NoneStr
                /\ Truthy(cache'[p]) /\ Strip(cache'[p]) # ""
                /\ last'.seen /\ last'.patient = p /\ last'.qtype = "SUMMARY"
                /\ ~last'.cache_hit
                /\ last'.gen = <<"text">>
                /\ last'.resp.answer = <<cache'[p]>>
       /\ (/\ last'.seen /\ last'.qtype = "SUMMARY" /\ last'.patient # NoId
           /\ cache[last'.patient] = NoneStr
           /\ last'.gen # <<>> /\ last'.gen[1] = "text")
             => /\ Truthy(cache'[last'.patient])
                /\ last'.resp.answer = <<cache'[last'.patient]>>
       /\ (/\ last'.seen /\ last'.qtype = "SUMMARY" /\ last'.patient # NoId
           /\ cache[last'.patient] # NoneStr)
             => /\ last'.cache_hit
                /\ last'.gen = <<>>
                /\ last'.resp.answer = <<cache[last'.patient]>>
                /\ last'.resp.confidence = "High"
                /\ cache' = cache]_vars

\* a SUMMARY request has been answered from the cache, without a generator call
C29_Witness ==
    /\ last.seen
    /\ last.qtype = "SUMMARY"
    /\ last.cache_hit
    /\ last.gen = <<>>
    /\ last.resp.answer = <<cache[last.patient]>>
    /\ last.resp.confidence = "High"

----------------------------------------------------------------------------
(* Properties of build_cross_signal_summary (SpecCrossSignal) *)

\* the text of the "- Temporal pattern:" line of a summary: the line before
\* the blank line and the limitation note
TemporalPattern(summary) == summary[Len(summary) - 2][2]

\* C30: for every pattern analyze_trend produces, the summary built from it
\* has the temporal-pattern line of that pattern: WORSENING_TREND gives the
\* neutral "changes in condition metrics" line, IMPROVING_TREND gives the
\* "improving pattern" line, and the "not clearly defined" line appears only
\* for NO_CLEAR_TREND and INSUFFICIENT_DATA.
C30_TemporalPatternLine ==
    fn.op = "build_cross_signal_summary" =>
        \A i \in 1..Len(fn.results) :
            fn.results[i].summary # NoneStr =>
                LET pattern == fn.results[i].pattern
                    line == TemporalPattern(fn.results[i].summary)
                IN /\ pattern = "WORSENING_TREND" =>
                        line = "Records suggest changes in condition metrics over the documented period."
                   /\ pattern = "IMPROVING_TREND" =>
                        line = "Records suggest an improving pattern over the documented period."
                   /\ line = "Pattern across records is not clearly defined." =>
                        pattern \in {"NO_CLEAR_TREND", "INSUFFICIENT_DATA"}

====
